---------------------------- MODULE Spec2Model ----------------------------
(***************************************************************************)
(* Model of the lootbox composition engine (lootbox/lootbox_manager.py)    *)
(* and of the skin lookups it uses (lootbox/skin_manager.py), over the     *)
(* three record sets of the external store: lootbox_reference,             *)
(* lootbox_skins and skins_reference; of the holder of the store client   *)
(* (lootbox/supabase.py); and of two callers whose store calls interleave. *)
(*                                                                         *)
(* Numbers.  A probability is an integer number of quarters (4 = 1.0), a   *)
(* skin price is an integer, and a lootbox price is an integer number of   *)
(* 1/40: every value the model handles is a small dyadic rational or such  *)
(* a value times 12/10, so sums and products of probabilities and prices   *)
(* are the ones Python's float arithmetic produces for these inputs.       *)
(*                                                                         *)
(* Strings.  A lootbox name or description is a sequence of one-character  *)
(* strings, so that str.strip() is computed.  Skin names are atoms where    *)
(* only equality is taken of them, and sequences of characters in the      *)
(* catalogs of the listings, where the ilike match is computed.            *)
(***************************************************************************)
EXTENDS Integers, Sequences, FiniteSets, TLC

(* ------------------------------ bounds -------------------------------- *)
\* number of engine operations in a run
MaxOps == 2
\* longest skin_names list handed to update
MaxNames == 2
\* highest occurrence of a store call inside a loop that a fault can hit
MaxFaultK == 2

(* ------------------------- program constants -------------------------- *)
\* the literal 1.0 of the probability-sum test, in quarters
One == 4
\* the markup factor 1.2 = MarkupNum / 10; prices are kept in 1/(One*10)
MarkupNum == 12

(* ------------------------------ inputs -------------------------------- *)
\* lootbox names a caller may pass (the empty and the blank name included)
LootboxNames == { <<>>, <<" ">>, <<"x">>, <<"y">> }
\* descriptions a caller may pass
Descriptions == { <<" ">>, <<"d">>, <<"e">> }
\* skin names a caller may pass; "Z" names no skin
SkinNames == { "A", "B", "Z" }
\* probabilities a caller may pass, in quarters: -0.25 .. 1.25
ProbValues == { -1, 1, 3, 4, 5 }

\* the callers that may run create at the same time
Callers == { 1, 2 }

\* a caller that is in no call
NoCall ==
    [ pc |-> "idle", name |-> <<>>, description |-> <<>>, err |-> "none" ]

NoCalls == [ c \in Callers |-> NoCall ]

\* None, as returned by the lookups; ids handed out by the store are >= 1
None == 0

VARIABLES
    lootbox_reference,  \* set of [lootbox_id, name, description, base_price]
    lootbox_skins,      \* sequence of [lootbox_id, skin_id, drop_rate]
    skins_reference,    \* set of [id, name, base_price, available]
    next_id,            \* next lootbox_id the store hands out
    fresh,              \* names created and not yet handed to update
    assigned,           \* per name, the probabilities last set and in force
    removed,            \* names removed and not created again since
    pricing,            \* per name: "unset" until set_probabilities has
                        \* succeeded on the lootbox, then "set", and "torn"
                        \* once a later operation on it failed part-way
    supabase,           \* the Supabase class and its objects: _instance,
                        \* the client attribute of every object, and the
                        \* numbers of objects and clients made
    calls,              \* for every concurrent caller, the call it is in:
                        \* arguments, position, local values, outcome
    lastOp,             \* the operation that just ran: arguments, outcome,
                        \* store calls; idle once the caller has its result
    nops                \* number of operations run so far

vars == << lootbox_reference, lootbox_skins, skins_reference, next_id,
           fresh, assigned, removed, pricing, supabase, calls,
           lastOp, nops >>

(* ------------------------------ helpers ------------------------------- *)
RECURSIVE SumSeq(_)
SumSeq(s) == IF s = <<>> THEN 0 ELSE Head(s) + SumSeq(Tail(s))

RECURSIVE SumFn(_, _)
\* sum(probabilities.values())
SumFn(f, keys) ==
    IF keys = {} THEN 0
    ELSE LET k == CHOOSE x \in keys : TRUE
         IN  f[k] + SumFn(f, keys \ {k})

Abs(x) == IF x < 0 THEN -x ELSE x

IsSpace(c) == c = " "

RECURSIVE LStrip(_)
LStrip(s) == IF s # <<>> /\ IsSpace(Head(s)) THEN LStrip(Tail(s)) ELSE s

RECURSIVE RStrip(_)
RStrip(s) ==
    IF s # <<>> /\ IsSpace(s[Len(s)]) THEN RStrip(SubSeq(s, 1, Len(s) - 1))
    ELSE s

\* Strip leaving the string as it is
Strip_none(s) == s

\* str.strip()
Strip(s) == RStrip(LStrip(s))

(* ------------------------- store call faults -------------------------- *)
\* A fault makes one store call of the operation misbehave: "raise" makes
\* execute() raise, "nodata" makes a write return no data and change nothing.
\* site names the call, k its occurrence within the operation.
NoFault == [ site |-> "none", kind |-> "none", k |-> 0 ]

Hit(fault, site, kind, k) ==
    fault.site = site /\ fault.kind = kind /\ fault.k = k


(* ----------------------------- supabase.py --------------------------- *)
\* An environment variable is set or not, and when set has a value, which
\* may be the empty string.
EnvValues ==
    { [ set |-> FALSE, value |-> <<>> ], [ set |-> TRUE, value |-> <<>> ],
      [ set |-> TRUE, value |-> <<"u">> ], [ set |-> TRUE, value |-> <<"v">> ] }

\* "not os.getenv(name)": the variable is unset or empty
Falsy(var) == ~ var.set \/ var.value = <<>>

\* the client attribute of an object that has none
NoClient == <<>>

\* the class before the first construction: _instance = None
Unconstructed ==
    [ instance |-> None, client |-> <<>>, objects |-> 0, clients |-> 0,
      returned |-> {} ]

\* the class after a construction that succeeded
Constructed ==
    [ instance |-> 1, client |-> << <<"u", "v">> >>, objects |-> 1,
      clients |-> 1, returned |-> {1} ]

\* Supabase._initialize on the object self
initialize(state, self, url, key) ==
    IF Falsy(url) THEN [ err |-> "missing_url", state |-> state ]
    ELSE IF Falsy(key) THEN [ err |-> "missing_key", state |-> state ]
    ELSE [ err |-> "none",
           state |-> [ state EXCEPT
                         !.client[self] = << url.value, key.value >>,
                         !.clients = @ + 1 ] ]

\* Supabase.__new__: _instance is assigned the new object before
\* _initialize runs on it
new(state, url, key) ==
    IF state.instance = None
    THEN LET self == state.objects + 1
             made == [ state EXCEPT !.instance = self, !.objects = self,
                                    !.client = Append(@, NoClient) ]
             init == initialize(made, self, url, key)
         IN  IF init.err # "none"
             THEN [ err |-> init.err, ret |-> None, state |-> init.state ]
             ELSE [ err |-> "none", ret |-> self,
                    state |-> [ init.state EXCEPT
                                  !.returned = @ \cup {self} ] ]
    ELSE [ err |-> "none", ret |-> state.instance,
           state |-> [ state EXCEPT !.returned = @ \cup {state.instance} ] ]

\* Supabase.get_client on the object self
get_client(state, self) ==
    IF state.client[self] = NoClient
    THEN [ err |-> "attribute_error", ret |-> NoClient ]
    ELSE [ err |-> "none", ret |-> state.client[self] ]

(* --------------------------- skin_manager.py -------------------------- *)
\* The record standing for "no record" in a lookup result
NoSkin == [ id |-> None, name |-> "", base_price |-> 0, available |-> FALSE ]

\* get_skin_by_id raising when no skin has the id
get_skin_by_id_strict(skin_id, fault, k) ==
    LET rows == { s \in skins_reference : s.id = skin_id }
    IN  IF Hit(fault, "skin_by_id", "raise", k) \/ Cardinality(rows) # 1
        THEN [ err |-> "store_raised", found |-> FALSE, data |-> NoSkin ]
        ELSE [ err |-> "none", found |-> TRUE,
               data |-> CHOOSE s \in rows : TRUE ]

\* SkinManager.get_skin_by_id: the skin with that id, or None
get_skin_by_id(skin_id, fault, k) ==
    LET rows == { s \in skins_reference : s.id = skin_id }
    IN  IF Hit(fault, "skin_by_id", "raise", k) \/ Cardinality(rows) > 1
        THEN [ err |-> "store_raised", found |-> FALSE, data |-> NoSkin ]
        ELSE IF rows = {}
        THEN [ err |-> "none", found |-> FALSE, data |-> NoSkin ]
        ELSE [ err |-> "none", found |-> TRUE,
               data |-> CHOOSE s \in rows : TRUE ]

\* get_skin_by_name raising when no skin has the name
get_skin_by_name_strict(name, fault, k) ==
    LET rows == { s \in skins_reference : s.name = name }
    IN  IF Hit(fault, "skin_by_name", "raise", k) \/ Cardinality(rows) # 1
        THEN [ err |-> "store_raised", found |-> FALSE, data |-> NoSkin ]
        ELSE [ err |-> "none", found |-> TRUE,
               data |-> CHOOSE s \in rows : TRUE ]

\* SkinManager.get_skin_by_name: the skin with exactly that name, or None
get_skin_by_name(name, fault, k) ==
    LET rows == { s \in skins_reference : s.name = name }
    IN  IF Hit(fault, "skin_by_name", "raise", k) \/ Cardinality(rows) > 1
        THEN [ err |-> "store_raised", found |-> FALSE, data |-> NoSkin ]
        ELSE IF rows = {}
        THEN [ err |-> "none", found |-> FALSE, data |-> NoSkin ]
        ELSE [ err |-> "none", found |-> TRUE,
               data |-> CHOOSE s \in rows : TRUE ]

\* the orders in which the store may return the rows of a select without
\* an order clause: every enumeration of the rows
Enumerations(rows) ==
    { e \in [ 1..Cardinality(rows) -> rows ] :
        \A i, j \in 1..Cardinality(rows) : e[i] = e[j] => i = j }

\* .order("base_price", desc=desc): the enumerations of the rows that are
\* monotone in base_price; rows of equal price come in any order
Ordered(rows, desc) ==
    { e \in Enumerations(rows) :
        \A i \in 1..(Len(e) - 1) :
            IF desc THEN e[i].base_price >= e[i + 1].base_price
            ELSE e[i].base_price <= e[i + 1].base_price }

\* Window with the last row of the range left out
Window_exclusive(rows, offset, limit) ==
    LET last == IF offset + limit - 1 < Len(rows) THEN offset + limit - 1
                ELSE Len(rows)
    IN  IF offset + 1 > last THEN <<>> ELSE SubSeq(rows, offset + 1, last)

\* .range(offset, offset + limit - 1): the rows at the 0-based positions
\* offset .. offset + limit - 1, both ends included
Window(rows, offset, limit) ==
    LET last == IF offset + limit < Len(rows) THEN offset + limit
                ELSE Len(rows)
    IN  IF offset + 1 > last THEN <<>> ELSE SubSeq(rows, offset + 1, last)

\* the answers of the store to a range select with limit <= 0 or
\* offset < 0: it raises, or it returns no row
BadRangeAnswers ==
    { [ err |-> "store_raised", ret |-> <<>>, selects |-> 1 ],
      [ err |-> "none", ret |-> <<>>, selects |-> 1 ] }

\* SkinManager.get_all_skins: the outcomes the call may have; the range is
\* handed to the store as it comes
get_all_skins(limit, offset, fault) ==
    IF Hit(fault, "skins_select", "raise", 1)
    THEN { [ err |-> "store_raised", ret |-> <<>>, selects |-> 1 ] }
    ELSE IF limit <= 0 \/ offset < 0 THEN BadRangeAnswers
    ELSE { [ err |-> "none", ret |-> Window(e, offset, limit),
             selects |-> 1 ] : e \in Enumerations(skins_reference) }

\* lower case of a character, as ilike compares
Lower(c) ==
    CASE c = "A" -> "a"
      [] c = "K" -> "k"
      [] c = "M" -> "m"
      [] OTHER   -> c

\* .ilike("name", "%" + name_contains + "%"): name_contains occurs in name,
\* case ignored
ILike(name, name_contains) ==
    \E start \in 0..(Len(name) - Len(name_contains)) :
        \A i \in 1..Len(name_contains) :
            Lower(name[start + i]) = Lower(name_contains[i])

\* ValidPriceRange refusing equal bounds
ValidPriceRange_strict(min_price, max_price) == min_price < max_price

\* the price test: not max_price < min_price
ValidPriceRange(min_price, max_price) == ~ (max_price < min_price)

\* the name_contains of a call that passes none
NoPattern == <<>>

\* SkinManager.get_filtered_skins: the outcomes the call may have
get_filtered_skins(min_price, max_price, order, name_contains, limit, offset, fault) ==
    LET desc == order = "desc"
        priced == { r \in skins_reference :
                      /\ r.base_price >= min_price
                      /\ r.base_price <= max_price
                      /\ r.available = TRUE }
        rows == IF name_contains # NoPattern
                THEN { r \in priced : ILike(r.name, name_contains) }
                ELSE priced
        fail(e, n) == { [ err |-> e, ret |-> <<>>, selects |-> n ] }
    IN  IF order \notin { "asc", "desc" } THEN fail("invalid_order", 0)
        ELSE IF ~ ValidPriceRange(min_price, max_price)
        THEN fail("price_range", 0)
        ELSE IF limit <= 0 THEN fail("limit_not_positive", 0)
        ELSE IF offset < 0 THEN fail("offset_negative", 0)
        ELSE IF Hit(fault, "skins_select", "raise", 1)
        THEN fail("store_raised", 1)
        ELSE { [ err |-> "none", ret |-> Window(e, offset, limit),
                 selects |-> 1 ] : e \in Ordered(rows, desc) }

(* -------------------------- lootbox_manager.py ------------------------ *)
\* LootboxManager.get_all_lootbox: the outcomes the call may have
get_all_lootbox(limit, offset, fault) ==
    IF limit <= 0
    THEN { [ err |-> "limit_not_positive", ret |-> <<>>, selects |-> 0 ] }
    ELSE IF offset < 0
    THEN { [ err |-> "offset_negative", ret |-> <<>>, selects |-> 0 ] }
    ELSE IF Hit(fault, "lootbox_select", "raise", 1)
    THEN { [ err |-> "store_raised", ret |-> <<>>, selects |-> 1 ] }
    ELSE { [ err |-> "none", ret |-> Window(e, offset, limit),
             selects |-> 1 ] : e \in Enumerations(lootbox_reference) }

\* LootboxManager.get_lootbox_id_by_name over the records refs
get_lootbox_id_by_name(refs, lootbox_name, fault, k) ==
    LET rows == { r \in refs : r.name = lootbox_name }
    IN  IF Hit(fault, "lootbox_id", "raise", k) \/ Cardinality(rows) > 1
        THEN [ err |-> "store_raised", id |-> None ]
        ELSE IF rows = {}
        THEN [ err |-> "none", id |-> None ]
        ELSE [ err |-> "none", id |-> (CHOOSE r \in rows : TRUE).lootbox_id ]

\* EdgesOf with the .eq("lootbox_id", ...) filter lost
EdgesOf_unfiltered(edges, lootbox_id) == edges

\* the rows of lootbox_skins with that lootbox_id, in store order
EdgesOf(edges, lootbox_id) ==
    LET Mine(e) == e.lootbox_id = lootbox_id
    IN  SelectSeq(edges, Mine)

RECURSIVE ResolveSkins(_, _, _)
\* the list comprehension of get_lootbox_contents over skin_ids[i..]:
\* get_skin_by_id(skin_id) is called for the filter and, when that is
\* truthy, once more for the value
ResolveSkins(skin_ids, i, fault) ==
    IF i > Len(skin_ids) THEN [ err |-> "none", ret |-> <<>> ]
    ELSE LET test == get_skin_by_id(skin_ids[i], fault, 2 * i - 1)
             val  == get_skin_by_id(skin_ids[i], fault, 2 * i)
             rest == ResolveSkins(skin_ids, i + 1, fault)
         IN  IF test.err # "none" THEN [ err |-> test.err, ret |-> <<>> ]
             ELSE IF ~test.found THEN rest
             ELSE IF val.err # "none" THEN [ err |-> val.err, ret |-> <<>> ]
             ELSE IF rest.err # "none" THEN rest
             ELSE [ err |-> "none", ret |-> <<val.data>> \o rest.ret ]

\* get_lootbox_contents with the not-found test lost: the edges of id None
\* are selected, and there are none
get_lootbox_contents_unchecked(refs, edges, lootbox_name, fault, idk) ==
    LET idr  == get_lootbox_id_by_name(refs, lootbox_name, fault, idk)
        rows == EdgesOf(edges, idr.id)
        skin_ids == [ i \in 1..Len(rows) |-> rows[i].skin_id ]
    IN  IF idr.err # "none" THEN [ err |-> idr.err, ret |-> <<>> ]
        ELSE IF Hit(fault, "edges_select", "raise", 1)
        THEN [ err |-> "store_raised", ret |-> <<>> ]
        ELSE IF rows = <<>> THEN [ err |-> "none", ret |-> <<>> ]
        ELSE ResolveSkins(skin_ids, 1, fault)

\* LootboxManager.get_lootbox_contents over the records refs and edges;
\* idk is the occurrence of its id lookup within the running operation
get_lootbox_contents(refs, edges, lootbox_name, fault, idk) ==
    LET idr  == get_lootbox_id_by_name(refs, lootbox_name, fault, idk)
        rows == EdgesOf(edges, idr.id)
        skin_ids == [ i \in 1..Len(rows) |-> rows[i].skin_id ]
    IN  IF idr.err # "none" THEN [ err |-> idr.err, ret |-> <<>> ]
        ELSE IF idr.id = None THEN [ err |-> "not_found", ret |-> <<>> ]
        ELSE IF Hit(fault, "edges_select", "raise", 1)
        THEN [ err |-> "store_raised", ret |-> <<>> ]
        ELSE IF rows = <<>> THEN [ err |-> "none", ret |-> <<>> ]
        ELSE ResolveSkins(skin_ids, 1, fault)

\* the base_price of a record inserted without one
NoPrice == <<>>

\* ExistingByName with the lookup finding nothing
ExistingByName_blind(name) == {}

\* existing_response.data of create: the records with that name
ExistingByName(name) == { r \in lootbox_reference : r.name = name }

\* LootboxManager.create: the outcome and the records afterwards
create(name, description, fault) ==
    LET existing == ExistingByName(name)
        row == [ lootbox_id |-> next_id, name |-> name,
                 description |-> description, base_price |-> NoPrice ]
        same(e, n) == [ err |-> e, refs |-> lootbox_reference,
                        next_id |-> next_id, selects |-> IF e = "required"
                                                         THEN 0 ELSE 1,
                        inserts |-> n ]
    IN  IF Strip(name) = <<>> \/ Strip(description) = <<>>
        THEN same("required", 0)
        ELSE IF Hit(fault, "lootbox_select", "raise", 1)
        THEN same("store_raised", 0)
        ELSE IF existing # {} THEN same("already_exists", 0)
        ELSE IF Hit(fault, "lootbox_insert", "raise", 1)
        THEN same("store_raised", 1)
        ELSE IF Hit(fault, "lootbox_insert", "nodata", 1)
        THEN same("unexpected_response", 1)
        ELSE [ err |-> "none", refs |-> lootbox_reference \cup {row},
               next_id |-> next_id + 1, selects |-> 1, inserts |-> 1 ]


\* ExistingSkinIds with the snapshot left empty
ExistingSkinIds_empty(edges, lootbox_id) == {}

\* existing_skin_ids of update: the skin ids on the edges of the lootbox
ExistingSkinIds(edges, lootbox_id) ==
    LET existing == EdgesOf(edges, lootbox_id)
    IN  { existing[i].skin_id : i \in 1..Len(existing) }

RECURSIVE StageSkins_rated(_, _, _, _, _)
\* the staging loop with every new edge staged at drop_rate 1
StageSkins_rated(skin_names, i, lootbox_id, existing_skin_ids, fault) ==
    IF i > Len(skin_names)
    THEN [ err |-> "none", skins_to_add |-> <<>>, duplicates |-> <<>>,
           not_found |-> <<>> ]
    ELSE LET skin_data == get_skin_by_name(skin_names[i], fault, i)
             skin_id   == skin_data.data.id
             rest == StageSkins_rated(skin_names, i + 1, lootbox_id,
                                      existing_skin_ids, fault)
             edge == [ lootbox_id |-> lootbox_id, skin_id |-> skin_id,
                       drop_rate |-> One ]
         IN  IF skin_data.err # "none"
             THEN [ err |-> skin_data.err, skins_to_add |-> <<>>,
                    duplicates |-> <<>>, not_found |-> <<>> ]
             ELSE IF rest.err # "none" THEN rest
             ELSE IF ~skin_data.found \/ skin_id = None
             THEN [ rest EXCEPT !.not_found = <<skin_names[i]>> \o @ ]
             ELSE IF skin_id \in existing_skin_ids
             THEN [ rest EXCEPT !.duplicates = <<skin_names[i]>> \o @ ]
             ELSE [ rest EXCEPT !.skins_to_add = <<edge>> \o @ ]

RECURSIVE StageSkins(_, _, _, _, _)
\* the staging loop of update over skin_names[i..]: every name is looked
\* up and put in not_found, duplicates or skins_to_add; existing_skin_ids
\* is the snapshot read before the loop and is not extended by the loop
StageSkins(skin_names, i, lootbox_id, existing_skin_ids, fault) ==
    IF i > Len(skin_names)
    THEN [ err |-> "none", skins_to_add |-> <<>>, duplicates |-> <<>>,
           not_found |-> <<>> ]
    ELSE LET skin_data == get_skin_by_name(skin_names[i], fault, i)
             skin_id   == skin_data.data.id
             rest == StageSkins(skin_names, i + 1, lootbox_id,
                                existing_skin_ids, fault)
             edge == [ lootbox_id |-> lootbox_id, skin_id |-> skin_id,
                       drop_rate |-> 0 ]
         IN  IF skin_data.err # "none"
             THEN [ err |-> skin_data.err, skins_to_add |-> <<>>,
                    duplicates |-> <<>>, not_found |-> <<>> ]
             ELSE IF rest.err # "none" THEN rest
             ELSE IF ~skin_data.found \/ skin_id = None
             THEN [ rest EXCEPT !.not_found = <<skin_names[i]>> \o @ ]
             ELSE IF skin_id \in existing_skin_ids
             THEN [ rest EXCEPT !.duplicates = <<skin_names[i]>> \o @ ]
             ELSE [ rest EXCEPT !.skins_to_add = <<edge>> \o @ ]

\* update with the "if skins_to_add" guard lost: the insert is issued also
\* for an empty batch, and its empty answer is taken for a failure
update_unguarded_insert(lootbox_name, skin_names, fault) ==
    LET idr == get_lootbox_id_by_name(lootbox_reference, lootbox_name,
                                      fault, 1)
        existing_skin_ids == ExistingSkinIds(lootbox_skins, idr.id)
        staged == StageSkins(skin_names, 1, idr.id, existing_skin_ids, fault)
        added  == lootbox_skins \o staged.skins_to_add
        fail(e, edges, n) ==
            [ err |-> e, edges |-> edges, ret |-> <<>>, inserts |-> n,
              duplicates |-> <<>>, not_found |-> <<>> ]
        finish(edges, n) ==
            LET contents == get_lootbox_contents(lootbox_reference, edges,
                                                 lootbox_name, fault, 2)
            IN  [ err |-> contents.err, edges |-> edges,
                  ret |-> contents.ret, inserts |-> n,
                  duplicates |-> staged.duplicates,
                  not_found |-> staged.not_found ]
    IN  IF idr.err # "none" THEN fail(idr.err, lootbox_skins, 0)
        ELSE IF idr.id = None THEN fail("not_found", lootbox_skins, 0)
        ELSE IF Hit(fault, "existing_select", "raise", 1)
        THEN fail("store_raised", lootbox_skins, 0)
        ELSE IF staged.err # "none" THEN fail(staged.err, lootbox_skins, 0)
        ELSE IF Hit(fault, "edges_insert", "raise", 1)
        THEN fail("store_raised", lootbox_skins, 1)
        ELSE IF Hit(fault, "edges_insert", "nodata", 1)
                  \/ staged.skins_to_add = <<>>
        THEN fail("failed_to_add", lootbox_skins, 1)
        ELSE finish(added, 1)

\* update with the test of the insert's answer lost
update_unchecked_insert(lootbox_name, skin_names, fault) ==
    LET idr == get_lootbox_id_by_name(lootbox_reference, lootbox_name,
                                      fault, 1)
        existing_skin_ids == ExistingSkinIds(lootbox_skins, idr.id)
        staged == StageSkins(skin_names, 1, idr.id, existing_skin_ids, fault)
        added  == lootbox_skins \o staged.skins_to_add
        fail(e, edges, n) ==
            [ err |-> e, edges |-> edges, ret |-> <<>>, inserts |-> n,
              duplicates |-> <<>>, not_found |-> <<>> ]
        finish(edges, n) ==
            LET contents == get_lootbox_contents(lootbox_reference, edges,
                                                 lootbox_name, fault, 2)
            IN  [ err |-> contents.err, edges |-> edges,
                  ret |-> contents.ret, inserts |-> n,
                  duplicates |-> staged.duplicates,
                  not_found |-> staged.not_found ]
    IN  IF idr.err # "none" THEN fail(idr.err, lootbox_skins, 0)
        ELSE IF idr.id = None THEN fail("not_found", lootbox_skins, 0)
        ELSE IF Hit(fault, "existing_select", "raise", 1)
        THEN fail("store_raised", lootbox_skins, 0)
        ELSE IF staged.err # "none" THEN fail(staged.err, lootbox_skins, 0)
        ELSE IF staged.skins_to_add = <<>> THEN finish(lootbox_skins, 0)
        ELSE IF Hit(fault, "edges_insert", "raise", 1)
        THEN fail("store_raised", lootbox_skins, 1)
        ELSE IF Hit(fault, "edges_insert", "nodata", 1)
        THEN finish(lootbox_skins, 1)
        ELSE finish(added, 1)

\* LootboxManager.update (add_skins): the outcome and the edges afterwards
update(lootbox_name, skin_names, fault) ==
    LET idr == get_lootbox_id_by_name(lootbox_reference, lootbox_name,
                                      fault, 1)
        existing_skin_ids == ExistingSkinIds(lootbox_skins, idr.id)
        staged == StageSkins(skin_names, 1, idr.id, existing_skin_ids, fault)
        added  == lootbox_skins \o staged.skins_to_add
        fail(e, edges, n) ==
            [ err |-> e, edges |-> edges, ret |-> <<>>, inserts |-> n,
              duplicates |-> <<>>, not_found |-> <<>> ]
        finish(edges, n) ==
            LET contents == get_lootbox_contents(lootbox_reference, edges,
                                                 lootbox_name, fault, 2)
            IN  [ err |-> contents.err, edges |-> edges,
                  ret |-> contents.ret, inserts |-> n,
                  duplicates |-> staged.duplicates,
                  not_found |-> staged.not_found ]
    IN  IF idr.err # "none" THEN fail(idr.err, lootbox_skins, 0)
        ELSE IF idr.id = None THEN fail("not_found", lootbox_skins, 0)
        ELSE IF Hit(fault, "existing_select", "raise", 1)
        THEN fail("store_raised", lootbox_skins, 0)
        ELSE IF staged.err # "none" THEN fail(staged.err, lootbox_skins, 0)
        ELSE IF staged.skins_to_add = <<>> THEN finish(lootbox_skins, 0)
        ELSE IF Hit(fault, "edges_insert", "raise", 1)
        THEN fail("store_raised", lootbox_skins, 1)
        ELSE IF Hit(fault, "edges_insert", "nodata", 1)
        THEN fail("failed_to_add", lootbox_skins, 1)
        ELSE finish(added, 1)

\* delete with the not-found test lost: the deletes are issued for id None,
\* and the record delete comes back empty
delete_unchecked(lootbox_name, fault) ==
    LET idr == get_lootbox_id_by_name(lootbox_reference, lootbox_name,
                                      fault, 1)
        Others(e) == e.lootbox_id # idr.id
        kept == SelectSeq(lootbox_skins, Others)
        out(e, refs, edges, n) ==
            [ err |-> e, refs |-> refs, edges |-> edges, deletes |-> n ]
    IN  IF idr.err # "none"
        THEN out(idr.err, lootbox_reference, lootbox_skins, 0)
        ELSE IF Hit(fault, "edges_delete", "raise", 1)
        THEN out("store_raised", lootbox_reference, lootbox_skins, 1)
        ELSE IF Hit(fault, "edges_delete", "nodata", 1)
        THEN out("failed_delete_skins", lootbox_reference, lootbox_skins, 1)
        ELSE IF Hit(fault, "lootbox_delete", "raise", 1)
        THEN out("store_raised", lootbox_reference, kept, 2)
        ELSE IF Hit(fault, "lootbox_delete", "nodata", 1) \/ idr.id = None
        THEN out("failed_delete_lootbox", lootbox_reference, kept, 2)
        ELSE out("none",
                 { r \in lootbox_reference : r.lootbox_id # idr.id },
                 kept, 2)


\* delete with the two delete calls in the other order: the record first,
\* then the edges
delete_record_first(lootbox_name, fault) ==
    LET idr == get_lootbox_id_by_name(lootbox_reference, lootbox_name,
                                      fault, 1)
        Others(e) == e.lootbox_id # idr.id
        kept == SelectSeq(lootbox_skins, Others)
        rest == { r \in lootbox_reference : r.lootbox_id # idr.id }
        out(e, refs, edges, n) ==
            [ err |-> e, refs |-> refs, edges |-> edges, deletes |-> n ]
    IN  IF idr.err # "none"
        THEN out(idr.err, lootbox_reference, lootbox_skins, 0)
        ELSE IF idr.id = None
        THEN out("not_found", lootbox_reference, lootbox_skins, 0)
        ELSE IF Hit(fault, "lootbox_delete", "raise", 1)
        THEN out("store_raised", lootbox_reference, lootbox_skins, 1)
        ELSE IF Hit(fault, "lootbox_delete", "nodata", 1)
        THEN out("failed_delete_lootbox", lootbox_reference, lootbox_skins, 1)
        ELSE IF Hit(fault, "edges_delete", "raise", 1)
        THEN out("store_raised", rest, lootbox_skins, 2)
        ELSE IF Hit(fault, "edges_delete", "nodata", 1)
        THEN out("failed_delete_skins", rest, lootbox_skins, 2)
        ELSE out("none", rest, kept, 2)

\* delete testing the answer of the edge delete with "not data": an edge
\* delete that removed no row is taken for a failure
delete_strict_edges(lootbox_name, fault) ==
    LET idr == get_lootbox_id_by_name(lootbox_reference, lootbox_name,
                                      fault, 1)
        Others(e) == e.lootbox_id # idr.id
        kept == SelectSeq(lootbox_skins, Others)
        out(e, refs, edges, n) ==
            [ err |-> e, refs |-> refs, edges |-> edges, deletes |-> n ]
    IN  IF idr.err # "none"
        THEN out(idr.err, lootbox_reference, lootbox_skins, 0)
        ELSE IF idr.id = None
        THEN out("not_found", lootbox_reference, lootbox_skins, 0)
        ELSE IF Hit(fault, "edges_delete", "raise", 1)
        THEN out("store_raised", lootbox_reference, lootbox_skins, 1)
        ELSE IF Hit(fault, "edges_delete", "nodata", 1)
                  \/ kept = lootbox_skins
        THEN out("failed_delete_skins", lootbox_reference, lootbox_skins, 1)
        ELSE IF Hit(fault, "lootbox_delete", "raise", 1)
        THEN out("store_raised", lootbox_reference, kept, 2)
        ELSE IF Hit(fault, "lootbox_delete", "nodata", 1)
        THEN out("failed_delete_lootbox", lootbox_reference, kept, 2)
        ELSE out("none",
                 { r \in lootbox_reference : r.lootbox_id # idr.id },
                 kept, 2)

\* delete with the test of the edge delete's answer lost: after an edge
\* delete that failed, the record delete is issued all the same
delete_unchecked_edges(lootbox_name, fault) ==
    LET idr == get_lootbox_id_by_name(lootbox_reference, lootbox_name,
                                      fault, 1)
        Others(e) == e.lootbox_id # idr.id
        kept == IF Hit(fault, "edges_delete", "nodata", 1) THEN lootbox_skins
                ELSE SelectSeq(lootbox_skins, Others)
        out(e, refs, edges, n) ==
            [ err |-> e, refs |-> refs, edges |-> edges, deletes |-> n ]
    IN  IF idr.err # "none"
        THEN out(idr.err, lootbox_reference, lootbox_skins, 0)
        ELSE IF idr.id = None
        THEN out("not_found", lootbox_reference, lootbox_skins, 0)
        ELSE IF Hit(fault, "edges_delete", "raise", 1)
        THEN out("store_raised", lootbox_reference, lootbox_skins, 1)
        ELSE IF Hit(fault, "lootbox_delete", "raise", 1)
        THEN out("store_raised", lootbox_reference, kept, 2)
        ELSE IF Hit(fault, "lootbox_delete", "nodata", 1)
        THEN out("failed_delete_lootbox", lootbox_reference, kept, 2)
        ELSE out("none",
                 { r \in lootbox_reference : r.lootbox_id # idr.id },
                 kept, 2)

\* LootboxManager.delete (remove): the outcome and the records afterwards
delete(lootbox_name, fault) ==
    LET idr == get_lootbox_id_by_name(lootbox_reference, lootbox_name,
                                      fault, 1)
        Others(e) == e.lootbox_id # idr.id
        kept == SelectSeq(lootbox_skins, Others)
        out(e, refs, edges, n) ==
            [ err |-> e, refs |-> refs, edges |-> edges, deletes |-> n ]
    IN  IF idr.err # "none"
        THEN out(idr.err, lootbox_reference, lootbox_skins, 0)
        ELSE IF idr.id = None
        THEN out("not_found", lootbox_reference, lootbox_skins, 0)
        ELSE IF Hit(fault, "edges_delete", "raise", 1)
        THEN out("store_raised", lootbox_reference, lootbox_skins, 1)
        ELSE IF Hit(fault, "edges_delete", "nodata", 1)
        THEN out("failed_delete_skins", lootbox_reference, lootbox_skins, 1)
        ELSE IF Hit(fault, "lootbox_delete", "raise", 1)
        THEN out("store_raised", lootbox_reference, kept, 2)
        ELSE IF Hit(fault, "lootbox_delete", "nodata", 1)
        THEN out("failed_delete_lootbox", lootbox_reference, kept, 2)
        ELSE out("none",
                 { r \in lootbox_reference : r.lootbox_id # idr.id },
                 kept, 2)


\* ProbGet always falling back to the default
ProbGet_default(probabilities, skin_name) == 0

\* probabilities.get(skin_name, 0.0)
ProbGet(probabilities, skin_name) ==
    IF skin_name \in DOMAIN probabilities THEN probabilities[skin_name] ELSE 0

\* SumIsOne with a tolerance wider than the grid step
SumIsOne_loose(total_probability) == Abs(total_probability - One) < 2

\* abs(total_probability - 1.0) < 1e-20: 1e-20 is smaller than one step of
\* the quarter grid, so on the grid the distance must be below one step
SumIsOne(total_probability) == Abs(total_probability - One) < 1

\* UnknownKeys with the membership loop lost
UnknownKeys_none(probabilities, lootbox_skin_names) == {}

\* the keys of probabilities that name no skin of the lootbox
UnknownKeys(probabilities, lootbox_skin_names) ==
    { skin_name \in DOMAIN probabilities :
        skin_name \notin lootbox_skin_names }

\* the expected_value loop: one term per entry of lootbox_contents
ExpectedValue(lootbox_contents, probabilities) ==
    SumSeq([ i \in 1..Len(lootbox_contents) |->
               lootbox_contents[i].base_price
                 * ProbGet(probabilities, lootbox_contents[i].name) ])

\* AdjustedPrice with the markup lost
AdjustedPrice_nomarkup(expected_value) == expected_value * 10

\* adjusted_price = expected_value * 1.2, in 1/(One*10)
AdjustedPrice(expected_value) == expected_value * MarkupNum

\* .update({"base_price": p}).eq("name", lootbox_name)
SetPrice(refs, lootbox_name, p) ==
    { IF r.name = lootbox_name THEN [ r EXCEPT !.base_price = <<p>> ] ELSE r
      : r \in refs }

\* SetRate with the .eq("lootbox_id", l) filter lost
SetRate_anybox(edges, l, s, d) ==
    [ i \in 1..Len(edges) |->
        IF edges[i].skin_id = s
        THEN [ edges[i] EXCEPT !.drop_rate = d ] ELSE edges[i] ]

\* .update({"drop_rate": d}).eq("lootbox_id", l).eq("skin_id", s)
SetRate(edges, l, s, d) ==
    [ i \in 1..Len(edges) |->
        IF edges[i].lootbox_id = l /\ edges[i].skin_id = s
        THEN [ edges[i] EXCEPT !.drop_rate = d ] ELSE edges[i] ]

RECURSIVE WriteRates_rollback(_, _, _, _, _, _)
\* WriteRates undoing the rates already written when a write fails
WriteRates_rollback(lootbox_contents, i, lootbox_id, probabilities, edges, fault) ==
    IF i > Len(lootbox_contents)
    THEN [ err |-> "none", edges |-> edges, updates |-> i - 1 ]
    ELSE IF Hit(fault, "rate_update", "raise", i)
    THEN [ err |-> "store_raised", edges |-> lootbox_skins, updates |-> i ]
    ELSE IF Hit(fault, "rate_update", "nodata", i)
    THEN [ err |-> "failed_update_rate", edges |-> lootbox_skins,
           updates |-> i ]
    ELSE WriteRates_rollback(lootbox_contents, i + 1, lootbox_id,
                             probabilities,
                             SetRate(edges, lootbox_id, lootbox_contents[i].id,
                                     ProbGet(probabilities,
                                             lootbox_contents[i].name)),
                             fault)

RECURSIVE WriteRates(_, _, _, _, _, _)
\* the drop-rate loop of update_probabilities over lootbox_contents[i..]
WriteRates(lootbox_contents, i, lootbox_id, probabilities, edges, fault) ==
    IF i > Len(lootbox_contents)
    THEN [ err |-> "none", edges |-> edges, updates |-> i - 1 ]
    ELSE IF Hit(fault, "rate_update", "raise", i)
    THEN [ err |-> "store_raised", edges |-> edges, updates |-> i ]
    ELSE IF Hit(fault, "rate_update", "nodata", i)
    THEN [ err |-> "failed_update_rate", edges |-> edges, updates |-> i ]
    ELSE WriteRates(lootbox_contents, i + 1, lootbox_id, probabilities,
                    SetRate(edges, lootbox_id, lootbox_contents[i].id,
                            ProbGet(probabilities, lootbox_contents[i].name)),
                    fault)

\* LootboxManager.update_probabilities (set_probabilities): the outcome and
\* the records afterwards; updates counts the update calls issued
update_probabilities(lootbox_name, probabilities, fault) ==
    LET contents == get_lootbox_contents(lootbox_reference, lootbox_skins,
                                         lootbox_name, fault, 1)
        lootbox_contents == contents.ret
        lootbox_skin_names ==
            { lootbox_contents[i].name : i \in 1..Len(lootbox_contents) }
        total_probability == SumFn(probabilities, DOMAIN probabilities)
        adjusted_price ==
            AdjustedPrice(ExpectedValue(lootbox_contents, probabilities))
        priced == SetPrice(lootbox_reference, lootbox_name, adjusted_price)
        idr == get_lootbox_id_by_name(priced, lootbox_name, fault, 2)
        rates == WriteRates(lootbox_contents, 1, idr.id, probabilities,
                            lootbox_skins, fault)
        out(e, refs, edges, n) ==
            [ err |-> e, refs |-> refs, edges |-> edges, updates |-> n ]
    IN  IF contents.err # "none"
        THEN out(contents.err, lootbox_reference, lootbox_skins, 0)
        ELSE IF lootbox_contents = <<>>
        THEN out("is_empty", lootbox_reference, lootbox_skins, 0)
        ELSE IF Cardinality(DOMAIN probabilities)
                  # Cardinality(lootbox_skin_names)
        THEN out("different_number", lootbox_reference, lootbox_skins, 0)
        ELSE IF UnknownKeys(probabilities, lootbox_skin_names) # {}
        THEN out("not_present", lootbox_reference, lootbox_skins, 0)
        ELSE IF ~SumIsOne(total_probability)
        THEN out("must_sum_to_1", lootbox_reference, lootbox_skins, 0)
        ELSE IF Hit(fault, "price_update", "raise", 1)
        THEN out("store_raised", lootbox_reference, lootbox_skins, 1)
        ELSE IF Hit(fault, "price_update", "nodata", 1)
        THEN out("failed_update_price", lootbox_reference, lootbox_skins, 1)
        ELSE IF idr.err # "none"
        THEN out(idr.err, priced, lootbox_skins, 1)
        ELSE IF idr.id = None
        THEN out("not_found_for_rates", priced, lootbox_skins, 1)
        ELSE out(rates.err, priced, rates.edges, 1 + rates.updates)


(* ------------------------------- inputs ------------------------------- *)
Raise(site, ks)  == { [ site |-> site, kind |-> "raise", k |-> k ] : k \in ks }
NoData(site, ks) == { [ site |-> site, kind |-> "nodata", k |-> k ] : k \in ks }

ReadFaults ==
    Raise("edges_select", {1}) \cup Raise("skin_by_id", 1..MaxFaultK)

CreateFaults ==
    {NoFault} \cup Raise("lootbox_select", {1})
              \cup Raise("lootbox_insert", {1}) \cup NoData("lootbox_insert", {1})

ContentsFaults == {NoFault} \cup Raise("lootbox_id", {1}) \cup ReadFaults

\* faults of update: of its batched insert, and of its reads
InsertFaults ==
    Raise("edges_insert", {1}) \cup NoData("edges_insert", {1})

UpdateReadFaults ==
    Raise("lootbox_id", {1, 2}) \cup ReadFaults
        \cup Raise("existing_select", {1})
        \cup Raise("skin_by_name", 1..MaxNames)

DeleteFaults ==
    {NoFault} \cup Raise("lootbox_id", {1})
              \cup Raise("edges_delete", {1}) \cup NoData("edges_delete", {1})
              \cup Raise("lootbox_delete", {1}) \cup NoData("lootbox_delete", {1})

\* faults of update_probabilities: before the sum test, and after it
ProbReadFaults == Raise("lootbox_id", {1}) \cup ReadFaults

ProbWriteFaults ==
    Raise("lootbox_id", {2})
        \cup Raise("price_update", {1}) \cup NoData("price_update", {1})
        \cup Raise("rate_update", 1..MaxFaultK)
        \cup NoData("rate_update", 1..MaxFaultK)

\* the names the operations on an existing lootbox are called with
TargetNames == { <<"x">>, <<"y">> }

\* the skin_names lists a caller may pass
SkinNameLists == UNION { [ 1..n -> SkinNames ] : n \in 0..MaxNames }

\* the probabilities dicts a caller may pass
Mappings == UNION { [ K -> ProbValues ] : K \in SUBSET SkinNames }

NoMapping == [ k \in {} |-> 0 ]

\* the (skin_names, fault) pairs update is called with: every list without
\* a fault and with a fault of the insert, one list with a fault of a read
UpdateCalls ==
    (SkinNameLists \X ({NoFault} \cup InsertFaults))
        \cup ({ <<"A", "B">> } \X UpdateReadFaults)

\* the (probabilities, fault) pairs update_probabilities is called with:
\* every dict without a fault, the dicts that sum to 1 with a fault of a
\* later call, one dict with a fault of a read
ProbCalls ==
    (Mappings \X {NoFault})
        \cup ({ m \in Mappings : SumFn(m, DOMAIN m) = One } \X ProbWriteFaults)
        \cup ({ [ k \in {"A"} |-> One ] } \X ProbReadFaults)

(* ------------------------------- state -------------------------------- *)
SkinA == [ id |-> 1, name |-> "A", base_price |-> 10, available |-> TRUE ]
SkinB == [ id |-> 2, name |-> "B", base_price |-> 20, available |-> TRUE ]

\* the class of the exception the body of an operation ends with: a store
\* call that raises brings an exception of the store's client, every other
\* failure is a ValueError the engine raises itself
Raised(err) ==
    CASE err = "none" -> "none"
      [] err = "store_raised" -> "StoreException"
      [] OTHER -> "ValueError"

\* the except clause with only ValueError caught
Boundary_valueerror_only(raised) == raised

\* the except clause that closes every operation: whatever the body
\* raised is caught as Exception and raised again as ValueError
Boundary(raised) == IF raised = "none" THEN "none" ELSE "ValueError"

\* what an operation leaves behind for the caller and in the call log
Op(op, name, fault, err) ==
    [ op |-> op, name |-> name, description |-> <<>>, skin_names |-> <<>>,
      probabilities |-> NoMapping, fault |-> fault, err |-> err,
      raises |-> Boundary(Raised(err)),
      ret |-> <<>>, duplicates |-> <<>>, not_found |-> <<>>,
      selects |-> 0, inserts |-> 0, updates |-> 0, deletes |-> 0 ]

Idle == Op("idle", <<>>, NoFault, "none")

\* the catalogs the engine may be constructed over: the empty one, one
\* holding the lootbox "y" with the skins A and B as members, and one
\* holding in addition the lootbox "x" with the skin A as member
BoxY == [ lootbox_id |-> 1, name |-> <<"y">>, description |-> <<"d">>,
          base_price |-> NoPrice ]
BoxX == [ lootbox_id |-> 2, name |-> <<"x">>, description |-> <<"d">>,
          base_price |-> NoPrice ]
Edge(lootbox_id, skin_id) ==
    [ lootbox_id |-> lootbox_id, skin_id |-> skin_id, drop_rate |-> 0 ]

Catalogs ==
    { [ refs |-> {}, edges |-> <<>>, next_id |-> 1 ],
      [ refs |-> { BoxY }, edges |-> << Edge(1, 1), Edge(1, 2) >>,
        next_id |-> 2 ],
      [ refs |-> { BoxY, BoxX },
        edges |-> << Edge(1, 1), Edge(1, 2), Edge(2, 1) >>, next_id |-> 3 ] }

\* The engine is constructed over the store as it stands.
Init ==
    /\ skins_reference = { SkinA, SkinB }
    /\ \E catalog \in Catalogs :
         /\ lootbox_reference = catalog.refs
         /\ lootbox_skins = catalog.edges
         /\ next_id = catalog.next_id
    /\ fresh = {}
    /\ assigned = [ n \in TargetNames |-> NoMapping ]
    /\ removed = {}
    /\ pricing = [ n \in TargetNames |-> "unset" ]
    /\ supabase = Constructed
    /\ calls = NoCalls
    /\ lastOp = Idle
    /\ nops = 0

(* ------------------------------ actions ------------------------------- *)
\* a caller may start an operation once the previous one has returned
CanCall == lastOp.op = "idle" /\ nops < MaxOps

Forget(name) ==
    [ n \in TargetNames |-> IF n = name THEN NoMapping ELSE assigned[n] ]

\* an operation on the lootbox failed after changing the store
Tear(name) ==
    [ n \in TargetNames |->
        IF n = name /\ pricing[n] # "unset" THEN "torn" ELSE pricing[n] ]

Create ==
    /\ CanCall
    /\ \E name \in LootboxNames, description \in Descriptions,
          fault \in CreateFaults :
         LET r == create(name, description, fault)
         IN  /\ lootbox_reference' = r.refs
             /\ next_id' = r.next_id
             /\ fresh' = IF r.err = "none" THEN fresh \cup {name} ELSE fresh
             /\ removed' = IF r.err = "none" THEN removed \ {name}
                           ELSE removed
             /\ lastOp' = [ Op("create", name, fault, r.err) EXCEPT
                              !.description = description,
                              !.selects = r.selects,
                              !.inserts = r.inserts ]
    /\ nops' = nops + 1
    /\ UNCHANGED << supabase, calls >>
    /\ UNCHANGED << lootbox_skins, skins_reference, assigned, pricing >>

GetContents ==
    /\ CanCall
    /\ \E lootbox_name \in TargetNames, fault \in ContentsFaults :
         LET r == get_lootbox_contents(lootbox_reference, lootbox_skins,
                                       lootbox_name, fault, 1)
         IN  lastOp' = [ Op("get_contents", lootbox_name, fault, r.err)
                           EXCEPT !.ret = r.ret ]
    /\ nops' = nops + 1
    /\ UNCHANGED << supabase, calls >>
    /\ UNCHANGED << lootbox_reference, lootbox_skins, skins_reference,
                    next_id, fresh, assigned, removed, pricing >>

AddSkins ==
    /\ CanCall
    /\ \E lootbox_name \in TargetNames, call \in UpdateCalls :
         LET skin_names == call[1]
             fault == call[2]
             r == update(lootbox_name, skin_names, fault)
         IN  /\ lootbox_skins' = r.edges
             /\ fresh' = fresh \ {lootbox_name}
             /\ assigned' = IF r.edges = lootbox_skins THEN assigned
                            ELSE Forget(lootbox_name)
             /\ lastOp' = [ Op("add_skins", lootbox_name, fault, r.err)
                              EXCEPT !.skin_names = skin_names,
                                     !.ret = r.ret,
                                     !.duplicates = r.duplicates,
                                     !.not_found = r.not_found,
                                     !.inserts = r.inserts ]
    /\ nops' = nops + 1
    /\ UNCHANGED << supabase, calls >>
    /\ UNCHANGED << lootbox_reference, skins_reference, next_id, removed,
                    pricing >>

Remove ==
    /\ CanCall
    /\ \E lootbox_name \in TargetNames, fault \in DeleteFaults :
         LET r == delete(lootbox_name, fault)
         IN  /\ lootbox_reference' = r.refs
             /\ lootbox_skins' = r.edges
             /\ fresh' = IF r.err = "none" THEN fresh \ {lootbox_name}
                         ELSE fresh
             /\ assigned' = IF r.edges = lootbox_skins
                               /\ r.refs = lootbox_reference
                            THEN assigned ELSE Forget(lootbox_name)
             /\ removed' = IF r.err = "none"
                           THEN removed \cup {lootbox_name} ELSE removed
             /\ pricing' =
                  IF r.err = "none"
                  THEN [ pricing EXCEPT ![lootbox_name] = "unset" ]
                  ELSE IF r.edges = lootbox_skins
                          /\ r.refs = lootbox_reference
                  THEN pricing ELSE Tear(lootbox_name)
             /\ lastOp' = [ Op("remove", lootbox_name, fault, r.err)
                              EXCEPT !.deletes = r.deletes ]
    /\ nops' = nops + 1
    /\ UNCHANGED << supabase, calls >>
    /\ UNCHANGED << skins_reference, next_id >>

SetProbabilities ==
    /\ CanCall
    /\ \E lootbox_name \in TargetNames, call \in ProbCalls :
         LET probabilities == call[1]
             fault == call[2]
             r == update_probabilities(lootbox_name, probabilities, fault)
         IN  /\ lootbox_reference' = r.refs
             /\ lootbox_skins' = r.edges
             /\ assigned' =
                  IF r.err = "none"
                  THEN [ assigned EXCEPT ![lootbox_name] = probabilities ]
                  ELSE IF r.edges = lootbox_skins THEN assigned
                  ELSE Forget(lootbox_name)
             /\ pricing' =
                  IF r.err = "none"
                  THEN [ pricing EXCEPT ![lootbox_name] = "set" ]
                  ELSE IF r.edges = lootbox_skins
                          /\ r.refs = lootbox_reference
                  THEN pricing ELSE Tear(lootbox_name)
             /\ lastOp' = [ Op("set_probabilities", lootbox_name, fault,
                               r.err)
                              EXCEPT !.probabilities = probabilities,
                                     !.updates = r.updates ]
    /\ nops' = nops + 1
    /\ UNCHANGED << supabase, calls >>
    /\ UNCHANGED << skins_reference, next_id, fresh, removed >>

\* the operation returns to its caller
Return ==
    /\ lastOp.op # "idle"
    /\ lastOp' = Idle
    /\ UNCHANGED << lootbox_reference, lootbox_skins, skins_reference,
                    next_id, fresh, assigned, removed, pricing, supabase,
                    calls, nops >>

Next ==
    \/ Create
    \/ GetContents
    \/ AddSkins
    \/ Remove
    \/ SetProbabilities
    \/ Return

Spec == Init /\ [][Next]_vars

(* ------------------------------ listings ------------------------------ *)
\* the limits and offsets a caller may pass
Limits == { -1, 0, 1, 2, 3 }
Offsets == { -1, 0, 1 }

\* the price bounds, orders and name filters a caller may pass
PriceBounds == { 5, 10, 20 }
Orders == { "asc", "desc", "up" }
Patterns == { NoPattern, <<"a">>, <<"K">> }

ListFaults(site) == {NoFault} \cup Raise(site, {1})

\* the skins the listings run over: two of equal price, one unavailable
SkinAk == [ id |-> 1, name |-> <<"A", "k">>, base_price |-> 10,
            available |-> TRUE ]
SkinM4 == [ id |-> 2, name |-> <<"M", "4">>, base_price |-> 20,
            available |-> TRUE ]
SkinAwp == [ id |-> 3, name |-> <<"a", "w", "p">>, base_price |-> 10,
             available |-> TRUE ]
SkinK == [ id |-> 4, name |-> <<"K">>, base_price |-> 20,
           available |-> FALSE ]

SkinCatalogs == { {}, { SkinAk, SkinM4 }, { SkinAk, SkinM4, SkinAwp, SkinK } }

\* what a listing leaves behind for the caller and in the call log
ListOp(op, query, fault, r) ==
    [ op |-> op, query |-> query, fault |-> fault, err |-> r.err,
      raises |-> Boundary(Raised(r.err)), ret |-> r.ret,
      selects |-> r.selects ]

\* The managers are constructed over the store as it stands.
InitListing ==
    /\ skins_reference \in SkinCatalogs
    /\ \E catalog \in Catalogs :
         /\ lootbox_reference = catalog.refs
         /\ lootbox_skins = catalog.edges
         /\ next_id = catalog.next_id
    /\ fresh = {}
    /\ assigned = [ n \in TargetNames |-> NoMapping ]
    /\ removed = {}
    /\ pricing = [ n \in TargetNames |-> "unset" ]
    /\ supabase = Constructed
    /\ calls = NoCalls
    /\ lastOp = Idle
    /\ nops = 0

ListSkins ==
    /\ CanCall
    /\ \E limit \in Limits, offset \in Offsets,
          fault \in ListFaults("skins_select") :
         \E r \in get_all_skins(limit, offset, fault) :
            lastOp' = ListOp("get_all_skins",
                             [ limit |-> limit, offset |-> offset ],
                             fault, r)
    /\ nops' = nops + 1
    /\ UNCHANGED << supabase, calls >>
    /\ UNCHANGED << lootbox_reference, lootbox_skins, skins_reference,
                    next_id, fresh, assigned, removed, pricing >>

ListLootboxes ==
    /\ CanCall
    /\ \E limit \in Limits, offset \in Offsets,
          fault \in ListFaults("lootbox_select") :
         \E r \in get_all_lootbox(limit, offset, fault) :
            lastOp' = ListOp("get_all_lootbox",
                             [ limit |-> limit, offset |-> offset ],
                             fault, r)
    /\ nops' = nops + 1
    /\ UNCHANGED << supabase, calls >>
    /\ UNCHANGED << lootbox_reference, lootbox_skins, skins_reference,
                    next_id, fresh, assigned, removed, pricing >>

FilteredSkins ==
    /\ CanCall
    /\ \E min_price \in PriceBounds, max_price \in PriceBounds,
          order \in Orders, name_contains \in Patterns,
          limit \in Limits, offset \in Offsets,
          fault \in ListFaults("skins_select") :
         \E r \in get_filtered_skins(min_price, max_price, order,
                                     name_contains, limit, offset, fault) :
            lastOp' = ListOp("get_filtered_skins",
                             [ min_price |-> min_price,
                               max_price |-> max_price, order |-> order,
                               name_contains |-> name_contains,
                               limit |-> limit, offset |-> offset ],
                             fault, r)
    /\ nops' = nops + 1
    /\ UNCHANGED << supabase, calls >>
    /\ UNCHANGED << lootbox_reference, lootbox_skins, skins_reference,
                    next_id, fresh, assigned, removed, pricing >>

NextListing ==
    \/ ListSkins
    \/ ListLootboxes
    \/ FilteredSkins
    \/ Return

SpecListing == InitListing /\ [][NextListing]_vars

(* --------------------------- every operation -------------------------- *)
\* The composition operations and the listings in one specification. A
\* behaviour is one of Spec, over the skins A and B, or one of SpecListing,
\* over a catalog of none or four skins with names of characters; the
\* number of skins, which no operation changes, tells the two apart.
InitOperations ==
    \/ Init
    \/ InitListing /\ Cardinality(skins_reference) # 2

\* the behaviour is one of Spec
OverAB == Cardinality(skins_reference) = 2

NextOperations ==
    \/ OverAB /\ Create
    \/ OverAB /\ GetContents
    \/ OverAB /\ AddSkins
    \/ OverAB /\ Remove
    \/ OverAB /\ SetProbabilities
    \/ ~OverAB /\ ListSkins
    \/ ~OverAB /\ ListLootboxes
    \/ ~OverAB /\ FilteredSkins
    \/ Return

SpecOperations == InitOperations /\ [][NextOperations]_vars

(* -------------------------- concurrent create ------------------------- *)
\* Two callers run create at the same time: the store serialises the
\* single calls (the existence select, the insert), and nothing else.
InitConcurrent ==
    /\ skins_reference = { SkinA, SkinB }
    /\ \E catalog \in Catalogs :
         /\ lootbox_reference = catalog.refs
         /\ lootbox_skins = catalog.edges
         /\ next_id = catalog.next_id
    /\ fresh = {}
    /\ assigned = [ n \in TargetNames |-> NoMapping ]
    /\ removed = {}
    /\ pricing = [ n \in TargetNames |-> "unset" ]
    /\ supabase = Constructed
    /\ calls = NoCalls
    /\ lastOp = Idle
    /\ nops = 0

\* what no step of a concurrent create changes
CreateFrame ==
    UNCHANGED << lootbox_skins, skins_reference, fresh, assigned, removed,
                 pricing, supabase, lastOp >>

\* caller c enters create(name, description): the test of line 128
CreateCall(c) ==
    /\ calls[c].pc = "idle"
    /\ nops < MaxOps
    /\ \E name \in LootboxNames, description \in Descriptions :
         calls' = [ calls EXCEPT ![c] =
                      IF Strip(name) = <<>> \/ Strip(description) = <<>>
                      THEN [ pc |-> "done", name |-> name,
                             description |-> description,
                             err |-> "required" ]
                      ELSE [ pc |-> "select", name |-> name,
                             description |-> description,
                             err |-> "none" ] ]
    /\ nops' = nops + 1
    /\ UNCHANGED << lootbox_reference, next_id >>
    /\ CreateFrame

\* the existence select of caller c and its test, lines 131-140
CreateSelect(c) ==
    /\ calls[c].pc = "select"
    /\ \E outcome \in { "ok", "raise" } :
         calls' = [ calls EXCEPT ![c] =
                      IF outcome = "raise"
                      THEN [ @ EXCEPT !.pc = "done", !.err = "store_raised" ]
                      ELSE IF ExistingByName(calls[c].name) # {}
                      THEN [ @ EXCEPT !.pc = "done",
                                      !.err = "already_exists" ]
                      ELSE [ @ EXCEPT !.pc = "insert" ] ]
    /\ UNCHANGED << lootbox_reference, next_id, nops >>
    /\ CreateFrame

\* the insert of caller c and its test, lines 142-150
CreateInsert(c) ==
    /\ calls[c].pc = "insert"
    /\ \E outcome \in { "ok", "raise", "nodata" } :
         LET row == [ lootbox_id |-> next_id, name |-> calls[c].name,
                      description |-> calls[c].description,
                      base_price |-> NoPrice ]
         IN  /\ lootbox_reference' = IF outcome = "ok"
                                     THEN lootbox_reference \cup {row}
                                     ELSE lootbox_reference
             /\ next_id' = IF outcome = "ok" THEN next_id + 1 ELSE next_id
             /\ calls' = [ calls EXCEPT ![c] =
                             [ @ EXCEPT !.pc = "done",
                                        !.err = CASE outcome = "ok" -> "none"
                                                  [] outcome = "raise" ->
                                                       "store_raised"
                                                  [] OTHER ->
                                                       "unexpected_response"
                             ] ]
    /\ UNCHANGED nops
    /\ CreateFrame

\* caller c has its answer and may call again
CreateReturn(c) ==
    /\ calls[c].pc = "done"
    /\ calls' = [ calls EXCEPT ![c] = NoCall ]
    /\ UNCHANGED << lootbox_reference, next_id, nops >>
    /\ CreateFrame

NextConcurrent ==
    \E c \in Callers :
        \/ CreateCall(c)
        \/ CreateSelect(c)
        \/ CreateInsert(c)
        \/ CreateReturn(c)

SpecConcurrent == InitConcurrent /\ [][NextConcurrent]_vars

(* ------------------- concurrent add_skins and remove ------------------ *)
\* Two callers run update and delete at the same time. Every step is one
\* call of the store; the lookups of skins_reference, which no operation
\* writes, are taken together with the select before them.

\* the skin_names lists the concurrent callers pass
RaceSkinLists == { <<"A">>, <<"B">>, <<"A", "B">>, <<"Z">> }

\* a caller at position pc of operation op, with its local values
Caller(pc, op, name, skin_names) ==
    [ pc |-> pc, op |-> op, name |-> name, skin_names |-> skin_names,
      lootbox_id |-> None, skins_to_add |-> <<>>, duplicates |-> <<>>,
      not_found |-> <<>>, err |-> "none", ret |-> <<>> ]

IdleCaller == Caller("idle", "none", <<>>, <<>>)

\* the caller leaves its operation with the failure err
Failed(call, err) == [ call EXCEPT !.pc = "done", !.err = err ]

\* the insert of a batch refused where it repeats a stored pair
InsertBatch_unique(edges, skins_to_add) ==
    LET New(e) == \A i \in 1..Len(edges) :
                     \/ edges[i].lootbox_id # e.lootbox_id
                     \/ edges[i].skin_id # e.skin_id
    IN  edges \o SelectSeq(skins_to_add, New)

\* .insert(skins_to_add) on lootbox_skins: the rows are appended
InsertBatch(edges, skins_to_add) == edges \o skins_to_add

InitRace ==
    /\ skins_reference = { SkinA, SkinB }
    /\ \E catalog \in Catalogs :
         /\ lootbox_reference = catalog.refs
         /\ lootbox_skins = catalog.edges
         /\ next_id = catalog.next_id
    /\ fresh = {}
    /\ assigned = [ n \in TargetNames |-> NoMapping ]
    /\ removed = {}
    /\ pricing = [ n \in TargetNames |-> "unset" ]
    /\ supabase = Constructed
    /\ calls = [ c \in Callers |-> IdleCaller ]
    /\ lastOp = Idle
    /\ nops = 0

\* what no step of the concurrent callers changes
RaceFrame ==
    UNCHANGED << skins_reference, next_id, fresh, assigned, removed, pricing,
                 supabase, lastOp >>

\* caller c enters update(lootbox_name, skin_names)
UpdateCall(c) ==
    /\ calls[c].pc = "idle"
    /\ nops < MaxOps
    /\ \E lootbox_name \in TargetNames, skin_names \in RaceSkinLists :
         calls' = [ calls EXCEPT ![c] =
                      Caller("update_id", "add_skins", lootbox_name,
                             skin_names) ]
    /\ nops' = nops + 1
    /\ UNCHANGED << lootbox_reference, lootbox_skins >>
    /\ RaceFrame

\* caller c enters delete(lootbox_name)
DeleteCall(c) ==
    /\ calls[c].pc = "idle"
    /\ nops < MaxOps
    /\ \E lootbox_name \in TargetNames :
         calls' = [ calls EXCEPT ![c] =
                      Caller("delete_id", "remove", lootbox_name, <<>>) ]
    /\ nops' = nops + 1
    /\ UNCHANGED << lootbox_reference, lootbox_skins >>
    /\ RaceFrame

\* the id lookup that opens update, delete and get_lootbox_contents,
\* lines 171-173, 238-240 and 89-91: the caller afterwards
LookupId(call, outcome, then) ==
    LET idr == get_lootbox_id_by_name(lootbox_reference, call.name,
                                      NoFault, 1)
    IN  IF outcome = "raise" \/ idr.err # "none"
        THEN Failed(call, "store_raised")
        ELSE IF idr.id = None THEN Failed(call, "not_found")
        ELSE [ call EXCEPT !.pc = then, !.lootbox_id = idr.id ]

\* the id lookup of update, lines 171-173
UpdateId(c) ==
    /\ calls[c].pc = "update_id"
    /\ \E outcome \in { "ok", "raise" } :
         calls' = [ calls EXCEPT ![c] = LookupId(@, outcome, "update_select") ]
    /\ UNCHANGED << lootbox_reference, lootbox_skins, nops >>
    /\ RaceFrame

\* the select of the existing edges and the staging loop, lines 179-210
UpdateSelect(c) ==
    /\ calls[c].pc = "update_select"
    /\ \E outcome \in { "ok", "raise" } :
         LET existing_skin_ids ==
                 ExistingSkinIds(lootbox_skins, calls[c].lootbox_id)
             staged == StageSkins(calls[c].skin_names, 1,
                                  calls[c].lootbox_id, existing_skin_ids,
                                  NoFault)
         IN  calls' = [ calls EXCEPT ![c] =
                          IF outcome = "raise"
                          THEN Failed(@, "store_raised")
                          ELSE [ @ EXCEPT
                                   !.pc = IF staged.skins_to_add = <<>>
                                          THEN "contents_id"
                                          ELSE "update_insert",
                                   !.skins_to_add = staged.skins_to_add,
                                   !.duplicates = staged.duplicates,
                                   !.not_found = staged.not_found ] ]
    /\ UNCHANGED << lootbox_reference, lootbox_skins, nops >>
    /\ RaceFrame

\* the insert of the staged edges, lines 212-220
UpdateInsert(c) ==
    /\ calls[c].pc = "update_insert"
    /\ \E outcome \in { "ok", "raise", "nodata" } :
         /\ lootbox_skins' = IF outcome = "ok"
                             THEN InsertBatch(lootbox_skins,
                                              calls[c].skins_to_add)
                             ELSE lootbox_skins
         /\ calls' = [ calls EXCEPT ![c] =
                         CASE outcome = "ok" -> [ @ EXCEPT
                                                    !.pc = "contents_id" ]
                           [] outcome = "raise" ->
                                Failed(@, "store_raised")
                           [] OTHER -> Failed(@, "failed_to_add") ]
    /\ UNCHANGED << lootbox_reference, nops >>
    /\ RaceFrame

\* the id lookup of the get_lootbox_contents that ends update, line 222
ContentsId(c) ==
    /\ calls[c].pc = "contents_id"
    /\ \E outcome \in { "ok", "raise" } :
         calls' = [ calls EXCEPT ![c] = LookupId(@, outcome, "contents_select") ]
    /\ UNCHANGED << lootbox_reference, lootbox_skins, nops >>
    /\ RaceFrame

\* the edge select of get_lootbox_contents and its comprehension,
\* lines 93-111
ContentsSelect(c) ==
    /\ calls[c].pc = "contents_select"
    /\ \E outcome \in { "ok", "raise" } :
         LET rows == EdgesOf(lootbox_skins, calls[c].lootbox_id)
             skin_ids == [ i \in 1..Len(rows) |-> rows[i].skin_id ]
             skin_details == ResolveSkins(skin_ids, 1, NoFault)
         IN  calls' = [ calls EXCEPT ![c] =
                          IF outcome = "raise"
                          THEN Failed(@, "store_raised")
                          ELSE [ @ EXCEPT !.pc = "done",
                                          !.ret = skin_details.ret ] ]
    /\ UNCHANGED << lootbox_reference, lootbox_skins, nops >>
    /\ RaceFrame

\* the id lookup of delete, lines 238-240
DeleteId(c) ==
    /\ calls[c].pc = "delete_id"
    /\ \E outcome \in { "ok", "raise" } :
         calls' = [ calls EXCEPT ![c] = LookupId(@, outcome, "delete_edges") ]
    /\ UNCHANGED << lootbox_reference, lootbox_skins, nops >>
    /\ RaceFrame

\* the delete of the edges of the lootbox, lines 242-251
DeleteEdges(c) ==
    /\ calls[c].pc = "delete_edges"
    /\ \E outcome \in { "ok", "raise", "nodata" } :
         LET Others(e) == e.lootbox_id # calls[c].lootbox_id
         IN  /\ lootbox_skins' = IF outcome = "ok"
                                 THEN SelectSeq(lootbox_skins, Others)
                                 ELSE lootbox_skins
             /\ calls' = [ calls EXCEPT ![c] =
                             CASE outcome = "ok" -> [ @ EXCEPT
                                                        !.pc =
                                                          "delete_record" ]
                               [] outcome = "raise" ->
                                    Failed(@, "store_raised")
                               [] OTHER ->
                                    Failed(@, "failed_delete_skins") ]
    /\ UNCHANGED << lootbox_reference, nops >>
    /\ RaceFrame

\* the delete of the lootbox record, lines 253-262; a record that is gone
\* already gives an empty answer
DeleteRecord(c) ==
    /\ calls[c].pc = "delete_record"
    /\ \E outcome \in { "ok", "raise", "nodata" } :
         LET mine == { r \in lootbox_reference :
                          r.lootbox_id = calls[c].lootbox_id }
         IN  /\ lootbox_reference' = IF outcome = "ok"
                                     THEN lootbox_reference \ mine
                                     ELSE lootbox_reference
             /\ calls' = [ calls EXCEPT ![c] =
                             CASE outcome = "raise" ->
                                    Failed(@, "store_raised")
                               [] outcome = "nodata" \/ mine = {} ->
                                    Failed(@, "failed_delete_lootbox")
                               [] OTHER -> [ @ EXCEPT !.pc = "done" ] ]
    /\ UNCHANGED << lootbox_skins, nops >>
    /\ RaceFrame

\* caller c has its answer and may call again
RaceReturn(c) ==
    /\ calls[c].pc = "done"
    /\ calls' = [ calls EXCEPT ![c] = IdleCaller ]
    /\ UNCHANGED << lootbox_reference, lootbox_skins, nops >>
    /\ RaceFrame

NextRace ==
    \E c \in Callers :
        \/ UpdateCall(c)
        \/ DeleteCall(c)
        \/ UpdateId(c)
        \/ UpdateSelect(c)
        \/ UpdateInsert(c)
        \/ ContentsId(c)
        \/ ContentsSelect(c)
        \/ DeleteId(c)
        \/ DeleteEdges(c)
        \/ DeleteRecord(c)
        \/ RaceReturn(c)

SpecRace == InitRace /\ [][NextRace]_vars

(* ---------------------------- store client ---------------------------- *)
\* The process starts with the class loaded and no object made.
InitSupabase ==
    /\ skins_reference = { SkinA, SkinB }
    /\ lootbox_reference = {}
    /\ lootbox_skins = <<>>
    /\ next_id = 1
    /\ fresh = {}
    /\ assigned = [ n \in TargetNames |-> NoMapping ]
    /\ removed = {}
    /\ pricing = [ n \in TargetNames |-> "unset" ]
    /\ supabase = Unconstructed
    /\ calls = NoCalls
    /\ lastOp = Idle
    /\ nops = 0

\* Supabase()
Construct ==
    /\ CanCall
    /\ \E url \in EnvValues, key \in EnvValues :
         LET r == new(supabase, url, key)
         IN  /\ supabase' = r.state
             /\ lastOp' = [ op |-> "Supabase", url |-> url, key |-> key,
                            err |-> r.err, ret |-> r.ret ]
    /\ nops' = nops + 1
    /\ UNCHANGED << lootbox_reference, lootbox_skins, skins_reference,
                    next_id, fresh, assigned, removed, pricing, calls >>

\* get_client() on an object a construction has returned
GetClient ==
    /\ CanCall
    /\ \E self \in supabase.returned :
         LET r == get_client(supabase, self)
         IN  lastOp' = [ op |-> "get_client", self |-> self,
                         err |-> r.err, ret |-> r.ret ]
    /\ nops' = nops + 1
    /\ UNCHANGED << lootbox_reference, lootbox_skins, skins_reference,
                    next_id, fresh, assigned, removed, pricing, supabase,
                    calls >>

NextSupabase ==
    \/ Construct
    \/ GetClient
    \/ Return

SpecSupabase == InitSupabase /\ [][NextSupabase]_vars

(* ------------------------- dangling references ------------------------ *)
\* the catalogs get_lootbox_contents may find when skins have been taken
\* out of skins_reference by their owner: those of Catalogs, and one whose
\* lootbox "y" has edges to the skins 2, 3 and 1, in this order
JoinCatalogs ==
    Catalogs \cup
      { [ refs |-> { BoxY },
          edges |-> << Edge(1, 2), Edge(1, 3), Edge(1, 1) >>,
          next_id |-> 2 ] }

InitJoin ==
    /\ skins_reference \in SUBSET { SkinA, SkinB }
    /\ \E catalog \in JoinCatalogs :
         /\ lootbox_reference = catalog.refs
         /\ lootbox_skins = catalog.edges
         /\ next_id = catalog.next_id
    /\ fresh = {}
    /\ assigned = [ n \in TargetNames |-> NoMapping ]
    /\ removed = {}
    /\ pricing = [ n \in TargetNames |-> "unset" ]
    /\ supabase = Constructed
    /\ calls = NoCalls
    /\ lastOp = Idle
    /\ nops = 0

NextJoin ==
    \/ GetContents
    \/ Return

SpecJoin == InitJoin /\ [][NextJoin]_vars

(* ------------------------------ properties ---------------------------- *)
\* the step in which the operation op runs
Ran(op) == lastOp.op = "idle" /\ lastOp'.op = op

\* the step leaves the three record sets as they were
StoreUnchanged ==
    /\ lootbox_reference' = lootbox_reference
    /\ lootbox_skins' = lootbox_skins
    /\ skins_reference' = skins_reference

\* the ids of the lootbox records with that name
BoxIds(name) == { r.lootbox_id : r \in { q \in lootbox_reference : q.name = name } }

\* the skins that are members of the lootbox with that name
MemberSkins(name) ==
    { s \in skins_reference :
        \E i \in 1..Len(lootbox_skins) :
            /\ lootbox_skins[i].lootbox_id \in BoxIds(name)
            /\ lootbox_skins[i].skin_id = s.id }

MemberNames(name) == { s.name : s \in MemberSkins(name) }

RECURSIVE WeightedPrice(_, _)
\* the sum over the skins of base_price * mapping[name], each skin once
WeightedPrice(skins, mapping) ==
    IF skins = {} THEN 0
    ELSE LET s == CHOOSE x \in skins : TRUE
         IN  s.base_price * mapping[s.name]
               + WeightedPrice(skins \ {s}, mapping)

\* C1: create(N, d) with a non-blank d and a name N that a lootbox of the
\* catalog already has fails, with the duplicate-name error whenever the
\* existence lookup answers, issues no insert and leaves the store unchanged.
C1_DuplicateNameRejected ==
    [][ ( /\ Ran("create")
          /\ \E r \in lootbox_reference : r.name = lastOp'.name
          /\ Strip(lastOp'.description) # <<>> )
        => ( /\ lastOp'.err # "none"
             /\ lastOp'.fault.site # "lootbox_select"
                  => lastOp'.err = "already_exists"
             /\ lastOp'.inserts = 0
             /\ StoreUnchanged /\ next_id' = next_id ) ]_vars

\* a create was refused as a duplicate although its description differs
\* from the one of the existing lootbox
C1_Witness ==
    /\ lastOp.op = "create"
    /\ lastOp.err = "already_exists"
    /\ \E r \in lootbox_reference :
         r.name = lastOp.name /\ r.description # lastOp.description

\* C2: get_contents(N), for a name N created and not handed to add_skins
\* since, never reports not-found, succeeds whenever the store answers, and
\* returns the empty sequence.
C2_FreshLootboxIsEmpty ==
    ( lastOp.op = "get_contents" /\ lastOp.name \in fresh )
    => ( /\ lastOp.err \in { "none", "store_raised" }
         /\ lastOp.fault = NoFault => lastOp.err = "none"
         /\ lastOp.err = "none" => lastOp.ret = <<>> )

\* get_contents succeeded on a lootbox created and never populated, while
\* another lootbox of the catalog has members
C2_Witness ==
    /\ lastOp.op = "get_contents"
    /\ lastOp.name \in fresh
    /\ lastOp.err = "none"
    /\ lootbox_skins # <<>>

\* C3: after a successful add_skins(L, [S]) for an existing skin S, S is a
\* member of L; and add_skins(L, [S]) for a skin S that is a member of L
\* issues no insert, leaves the edges unchanged and, when the store answers,
\* succeeds with S classified as a duplicate.
C3_AddSkinsIdempotent ==
    /\ [] ( ( /\ lastOp.op = "add_skins"
              /\ lastOp.err = "none"
              /\ Len(lastOp.skin_names) = 1
              /\ \E s \in skins_reference : s.name = lastOp.skin_names[1] )
            => lastOp.skin_names[1] \in MemberNames(lastOp.name) )
    /\ [][ ( /\ Ran("add_skins")
             /\ Len(lastOp'.skin_names) = 1
             /\ lastOp'.skin_names[1] \in MemberNames(lastOp'.name) )
           => ( /\ lootbox_skins' = lootbox_skins
                /\ lastOp'.inserts = 0
                /\ lastOp'.fault = NoFault
                     => ( /\ lastOp'.err = "none"
                          /\ lastOp'.duplicates = lastOp'.skin_names ) ) ]_vars

\* an add_skins of one skin classified it as a duplicate and succeeded
C3_Witness ==
    /\ lastOp.op = "add_skins"
    /\ lastOp.err = "none"
    /\ Len(lastOp.skin_names) = 1
    /\ lastOp.duplicates = lastOp.skin_names
    /\ lastOp.inserts = 0

\* C4: each (lootbox_id, skin_id) pair occurs on at most one edge.
C4_PairsUnique ==
    \A i, j \in 1..Len(lootbox_skins) :
        ( /\ lootbox_skins[i].lootbox_id = lootbox_skins[j].lootbox_id
          /\ lootbox_skins[i].skin_id = lootbox_skins[j].skin_id )
        => i = j

\* C5: after a successful set_probabilities(L, mapping) the base_price of L
\* is 1.2 times the sum over the members of L of base_price * mapping[name],
\* each member counted once.
C5_PriceIsMarkedUpExpectedValue ==
    ( lastOp.op = "set_probabilities" /\ lastOp.err = "none" )
    => \A r \in lootbox_reference :
         r.name = lastOp.name
         => r.base_price =
              << MarkupNum * WeightedPrice(MemberSkins(lastOp.name),
                                           lastOp.probabilities) >>

\* C6: a successful set_probabilities(L, mapping) leaves on every edge of
\* L the probability the mapping gives to the name of the edge's skin, and
\* leaves the edges of the other lootboxes as they were.
C6_RatesWritten ==
    [][ ( Ran("set_probabilities") /\ lastOp'.err = "none" )
        => ( /\ Len(lootbox_skins') = Len(lootbox_skins)
             /\ \A i \in 1..Len(lootbox_skins) :
                  IF lootbox_skins[i].lootbox_id \in BoxIds(lastOp'.name)
                  THEN /\ lootbox_skins'[i].lootbox_id
                            = lootbox_skins[i].lootbox_id
                       /\ lootbox_skins'[i].skin_id = lootbox_skins[i].skin_id
                       /\ \A s \in skins_reference :
                            s.id = lootbox_skins[i].skin_id
                            => /\ s.name \in DOMAIN lastOp'.probabilities
                               /\ lootbox_skins'[i].drop_rate
                                    = lastOp'.probabilities[s.name]
                  ELSE lootbox_skins'[i] = lootbox_skins[i] ) ]_vars

\* set_probabilities succeeded and wrote a non-zero rate on a lootbox while
\* another lootbox holds an edge for one of the same skins
C6_Witness ==
    /\ lastOp.op = "set_probabilities"
    /\ lastOp.err = "none"
    /\ \E i, j \in 1..Len(lootbox_skins) :
         /\ lootbox_skins[i].lootbox_id \in BoxIds(lastOp.name)
         /\ lootbox_skins[i].drop_rate # 0
         /\ lootbox_skins[j].lootbox_id \notin BoxIds(lastOp.name)
         /\ lootbox_skins[j].skin_id = lootbox_skins[i].skin_id

\* the Skin fields, as stored in skins_reference
SkinFields == { "id", "name", "base_price", "available" }

\* C7, as stated: get_contents(L) after a successful set_probabilities(L,
\* mapping) returns, for each member, the drop_rate assigned to it.
C7_ContentsCarryRates ==
    ( /\ lastOp.op = "get_contents"
      /\ lastOp.err = "none"
      /\ assigned[lastOp.name] # NoMapping )
    => \A i \in 1..Len(lastOp.ret) :
         /\ "drop_rate" \in DOMAIN lastOp.ret[i]
         /\ lastOp.ret[i].drop_rate
              = assigned[lastOp.name][lastOp.ret[i].name]

\* C7, amended: get_contents(L) after a successful set_probabilities(L,
\* mapping) returns the Skin records of the members of L (id, name,
\* base_price, available; no drop_rate), one for each key of the mapping,
\* and the assigned drop_rates are on the stored edges of L.
C7_ContentsAreSkinsRatesOnEdges ==
    ( /\ lastOp.op = "get_contents"
      /\ lastOp.err = "none"
      /\ assigned[lastOp.name] # NoMapping )
    => ( /\ \A i \in 1..Len(lastOp.ret) :
              /\ lastOp.ret[i] \in skins_reference
              /\ DOMAIN lastOp.ret[i] = SkinFields
         /\ { lastOp.ret[i].name : i \in 1..Len(lastOp.ret) }
              = DOMAIN assigned[lastOp.name]
         /\ \A i \in 1..Len(lootbox_skins) :
              lootbox_skins[i].lootbox_id \in BoxIds(lastOp.name)
              => \A s \in skins_reference :
                   s.id = lootbox_skins[i].skin_id
                   => lootbox_skins[i].drop_rate
                        = assigned[lastOp.name][s.name] )

\* get_contents returned two members after probabilities were set on them
C7_Witness ==
    /\ lastOp.op = "get_contents"
    /\ lastOp.err = "none"
    /\ assigned[lastOp.name] # NoMapping
    /\ Len(lastOp.ret) = 2
    /\ \E i \in 1..Len(lootbox_skins) : lootbox_skins[i].drop_rate # 0

\* C8: set_probabilities(L, mapping) with values that do not sum to 1 fails
\* and issues no store write: every base_price and drop_rate is unchanged.
C8_BadSumRejected ==
    [][ ( /\ Ran("set_probabilities")
          /\ SumFn(lastOp'.probabilities, DOMAIN lastOp'.probabilities)
               # One )
        => ( /\ lastOp'.err # "none"
             /\ lastOp'.updates = 0
             /\ StoreUnchanged ) ]_vars

\* set_probabilities was refused by the sum test itself
C8_Witness ==
    /\ lastOp.op = "set_probabilities"
    /\ lastOp.err = "must_sum_to_1"
    /\ DOMAIN lastOp.probabilities = MemberNames(lastOp.name)

\* C9: set_probabilities(L, mapping) with a key set other than the names of
\* the members of L fails and issues no store write.
C9_KeySetMismatchRejected ==
    [][ ( /\ Ran("set_probabilities")
          /\ DOMAIN lastOp'.probabilities # MemberNames(lastOp'.name) )
        => ( /\ lastOp'.err # "none"
             /\ lastOp'.updates = 0
             /\ StoreUnchanged ) ]_vars

\* set_probabilities was refused for a key naming a non-member although
\* the number of keys matched and the values sum to 1
C9_Witness ==
    /\ lastOp.op = "set_probabilities"
    /\ lastOp.err = "not_present"
    /\ SumFn(lastOp.probabilities, DOMAIN lastOp.probabilities) = One

\* C10: remove(N) for a name N that no lootbox has fails, with the not-found
\* error whenever the id lookup answers, issues no delete call and leaves
\* the store unchanged.
C10_RemoveUnknownName ==
    [][ ( /\ Ran("remove")
          /\ ~ \E r \in lootbox_reference : r.name = lastOp'.name )
        => ( /\ lastOp'.err # "none"
             /\ lastOp'.fault.site # "lootbox_id"
                  => lastOp'.err = "not_found"
             /\ lastOp'.deletes = 0
             /\ StoreUnchanged ) ]_vars

\* remove was refused as not-found while the catalog holds another lootbox
C10_Witness ==
    /\ lastOp.op = "remove"
    /\ lastOp.err = "not_found"
    /\ lootbox_reference # {}

\* C11: a successful remove(N) leaves no lootbox record named N and no edge
\* of the removed lootbox; and get_contents(N), for a name N removed and not
\* created again since, fails, with the not-found error whenever the id
\* lookup answers.
C11_RemovedIsNotFound ==
    /\ [] ( ( lastOp.op = "get_contents" /\ lastOp.name \in removed )
            => ( /\ lastOp.err # "none"
                 /\ lastOp.fault.site # "lootbox_id"
                      => lastOp.err = "not_found" ) )
    /\ [][ ( Ran("remove") /\ lastOp'.err = "none" )
           => ( /\ ~ \E r \in lootbox_reference' : r.name = lastOp'.name
                /\ \A i \in 1..Len(lootbox_skins') :
                     lootbox_skins'[i].lootbox_id \notin BoxIds(lastOp'.name)
              ) ]_vars

\* get_contents was refused as not-found for a removed lootbox that had
\* members, while the edges of another lootbox are still there
C11_Witness ==
    /\ lastOp.op = "get_contents"
    /\ lastOp.name \in removed
    /\ lastOp.err = "not_found"
    /\ lootbox_skins # <<>>

\* the skins of skins_reference that the names of a list resolve to
Resolvable(skin_names) ==
    { s \in skins_reference :
        \E i \in 1..Len(skin_names) : s.name = skin_names[i] }

IsBlank(s) == \A i \in 1..Len(s) : s[i] = " "

\* C13: create(name, description) with a blank name or a blank description
\* fails with the invalid-argument error, issues neither the existence
\* lookup nor the insert, and leaves the catalog unchanged.
C13_BlankCreateRejected ==
    [][ ( /\ Ran("create")
          /\ IsBlank(lastOp'.name) \/ IsBlank(lastOp'.description) )
        => ( /\ lastOp'.err = "required"
             /\ lastOp'.selects = 0
             /\ lastOp'.inserts = 0
             /\ StoreUnchanged /\ next_id' = next_id ) ]_vars

\* a create with a name of spaces only and a proper description was refused
\* as invalid
C13_Witness ==
    /\ lastOp.op = "create"
    /\ lastOp.err = "required"
    /\ lastOp.name # <<>>
    /\ ~ IsBlank(lastOp.description)

\* the sum over the edges of the lootbox of skin.base_price * drop_rate,
\* each edge counted
EdgeValue(lootbox_id) ==
    SumSeq([ i \in 1..Len(lootbox_skins) |->
               IF lootbox_skins[i].lootbox_id = lootbox_id
               THEN (CHOOSE s \in skins_reference :
                        s.id = lootbox_skins[i].skin_id).base_price
                      * lootbox_skins[i].drop_rate
               ELSE 0 ])

\* the sum of the drop_rates over the edges of the lootbox
RateSum(lootbox_id) ==
    SumSeq([ i \in 1..Len(lootbox_skins) |->
               IF lootbox_skins[i].lootbox_id = lootbox_id
               THEN lootbox_skins[i].drop_rate ELSE 0 ])

C18_RatesSumToOne ==
    \A r \in lootbox_reference :
        ( r.name \in TargetNames /\ pricing[r.name] = "set" )
        => RateSum(r.lootbox_id) = One

\* C19: every stored drop_rate lies in [0, 1].
C19_RatesInUnitInterval ==
    \A i \in 1..Len(lootbox_skins) :
        /\ 0 <= lootbox_skins[i].drop_rate
        /\ lootbox_skins[i].drop_rate <= One

\* C20: every edge references an existing lootbox record, also after an
\* operation that failed part-way; and a remove that deletes the record
\* has issued both deletes and leaves no edge of the deleted lootbox.
C20_EdgesReferenceLootboxes ==
    /\ [] ( \A i \in 1..Len(lootbox_skins) :
              \E r \in lootbox_reference :
                  r.lootbox_id = lootbox_skins[i].lootbox_id )
    /\ [][ Ran("remove")
           => \A r \in lootbox_reference \ lootbox_reference' :
                /\ lastOp'.deletes = 2
                /\ \A i \in 1..Len(lootbox_skins') :
                     lootbox_skins'[i].lootbox_id # r.lootbox_id ]_vars

\* a remove failed at the delete of the record after the edges of the
\* lootbox were deleted, while another lootbox keeps its edges
C20_Witness ==
    /\ lastOp.op = "remove"
    /\ lastOp.err = "failed_delete_lootbox"
    /\ lastOp.deletes = 2
    /\ \E r \in lootbox_reference :
         /\ r.name = lastOp.name
         /\ \A i \in 1..Len(lootbox_skins) :
              lootbox_skins[i].lootbox_id # r.lootbox_id
    /\ lootbox_skins # <<>>

\* C14: every listing called with limit <= 0 or offset < 0 fails and
\* issues no store call.
C14_BadRangeRejected ==
    ( /\ lastOp.op \in { "get_all_skins", "get_all_lootbox",
                          "get_filtered_skins" }
      /\ lastOp.query.limit <= 0 \/ lastOp.query.offset < 0 )
    => ( lastOp.err # "none" /\ lastOp.selects = 0 )

\* C15: get_filtered_skins called with an order other than asc and desc,
\* or with max_price < min_price, fails with the invalid-argument error and
\* issues no store call; called with max_price = min_price and otherwise
\* valid arguments it issues its select, and succeeds when the store
\* answers.
C15_BadOrderOrPricesRejected ==
    lastOp.op = "get_filtered_skins"
    => ( /\ ( \/ lastOp.query.order \notin { "asc", "desc" }
              \/ lastOp.query.max_price < lastOp.query.min_price )
              => ( /\ lastOp.err \in { "invalid_order", "price_range" }
                   /\ lastOp.selects = 0 )
         /\ ( /\ lastOp.query.order \in { "asc", "desc" }
              /\ lastOp.query.max_price = lastOp.query.min_price
              /\ lastOp.query.limit > 0
              /\ lastOp.query.offset >= 0 )
              => ( /\ lastOp.selects = 1
                   /\ lastOp.fault = NoFault => lastOp.err = "none" ) )

\* get_filtered_skins with max_price = min_price returned a skin
C15_Witness ==
    /\ lastOp.op = "get_filtered_skins"
    /\ lastOp.query.max_price = lastOp.query.min_price
    /\ lastOp.err = "none"
    /\ lastOp.ret # <<>>

\* the sequence is monotone in base_price, as the order asks
Monotone(rows, order) ==
    \A i \in 1..(Len(rows) - 1) :
        IF order = "desc" THEN rows[i].base_price >= rows[i + 1].base_price
        ELSE rows[i].base_price <= rows[i + 1].base_price

\* the available skins with a base_price within the bounds
AvailableWithin(min_price, max_price) ==
    { r \in skins_reference :
        r.available /\ min_price <= r.base_price
                    /\ r.base_price <= max_price }

\* C16: a successful get_filtered_skins returns only available skins with
\* min_price <= base_price <= max_price, in non-decreasing base_price for
\* asc and non-increasing for desc; and, called without a name filter, it
\* returns the positions offset .. offset + limit - 1 of a listing of all
\* those skins in that order.
C16_FilteredListing ==
    ( lastOp.op = "get_filtered_skins" /\ lastOp.err = "none" )
    => LET q == lastOp.query
           all == AvailableWithin(q.min_price, q.max_price)
           n == Cardinality(all)
       IN  /\ \A i \in 1..Len(lastOp.ret) : lastOp.ret[i] \in all
           /\ Monotone(lastOp.ret, q.order)
           /\ q.name_contains = NoPattern
                => \E e \in [ 1..n -> all ] :
                      /\ \A i, j \in 1..n : e[i] = e[j] => i = j
                      /\ Monotone(e, q.order)
                      /\ Len(lastOp.ret)
                           = IF n - q.offset < 0 THEN 0
                             ELSE IF n - q.offset < q.limit
                             THEN n - q.offset ELSE q.limit
                      /\ \A i \in 1..Len(lastOp.ret) :
                           lastOp.ret[i] = e[q.offset + i]

\* a descending listing from offset 1 returned fewer skins than are within
\* the bounds, while an unavailable skin is within the bounds too
C16_Witness ==
    /\ lastOp.op = "get_filtered_skins"
    /\ lastOp.err = "none"
    /\ lastOp.query.order = "desc"
    /\ lastOp.query.offset = 1
    /\ lastOp.query.name_contains = NoPattern
    /\ Len(lastOp.ret) = 2
    /\ Cardinality(AvailableWithin(lastOp.query.min_price,
                                   lastOp.query.max_price)) = 3
    /\ \E r \in skins_reference :
         ~ r.available /\ r.base_price <= lastOp.query.max_price

\* the rank of the i-th edge among the edges of its lootbox
Rank(i) ==
    Cardinality({ j \in 1..i :
                    lootbox_skins[j].lootbox_id = lootbox_skins[i].lootbox_id })

\* the sum over the edges of the lootbox of skin.base_price * mapping[name]
MappedValue(lootbox_id, mapping) ==
    SumSeq([ i \in 1..Len(lootbox_skins) |->
               IF lootbox_skins[i].lootbox_id = lootbox_id
               THEN LET s == CHOOSE x \in skins_reference :
                                x.id = lootbox_skins[i].skin_id
                    IN  s.base_price * mapping[s.name]
               ELSE 0 ])

\* C23: when the k-th drop-rate write of set_probabilities(L, mapping)
\* fails, the operation fails (with the store-failure error when the write
\* returns no data), the new base_price of L stays written, the members
\* written by the first k - 1 writes have their new drop_rate, every other
\* edge keeps its old drop_rate, and no write follows the failed one.
C23_RateFailureLeavesPartialWrites ==
    [][ ( /\ Ran("set_probabilities")
          /\ lastOp'.fault.site = "rate_update"
          /\ lastOp'.updates = 1 + lastOp'.fault.k )
        => LET k == lastOp'.fault.k
               mapping == lastOp'.probabilities
               ids == BoxIds(lastOp'.name)
               written == { lootbox_skins[j].skin_id :
                              j \in { i \in 1..Len(lootbox_skins) :
                                        /\ lootbox_skins[i].lootbox_id \in ids
                                        /\ Rank(i) < k } }
           IN  /\ lastOp'.err # "none"
               /\ lastOp'.fault.kind = "nodata"
                    => lastOp'.err = "failed_update_rate"
               /\ \A r \in lootbox_reference' :
                    IF r.name = lastOp'.name
                    THEN r.base_price
                           = << MarkupNum * MappedValue(r.lootbox_id, mapping) >>
                    ELSE r \in lootbox_reference
               /\ Len(lootbox_skins') = Len(lootbox_skins)
               /\ \A i \in 1..Len(lootbox_skins) :
                    IF /\ lootbox_skins[i].lootbox_id \in ids
                       /\ lootbox_skins[i].skin_id \in written
                    THEN lootbox_skins'[i] =
                           [ lootbox_skins[i] EXCEPT !.drop_rate =
                               mapping[(CHOOSE s \in skins_reference :
                                  s.id = lootbox_skins[i].skin_id).name] ]
                    ELSE lootbox_skins'[i] = lootbox_skins[i] ]_vars

\* the second drop-rate write of a set_probabilities failed: the price is
\* written, one edge of the lootbox has its new rate and another kept 0
C23_Witness ==
    /\ lastOp.op = "set_probabilities"
    /\ lastOp.err = "failed_update_rate"
    /\ lastOp.fault.k = 2
    /\ lastOp.updates = 3
    /\ \E r \in lootbox_reference :
         /\ r.name = lastOp.name
         /\ r.base_price \notin { NoPrice, <<0>> }
         /\ \E i, j \in 1..Len(lootbox_skins) :
              /\ lootbox_skins[i].lootbox_id = r.lootbox_id
              /\ lootbox_skins[j].lootbox_id = r.lootbox_id
              /\ lootbox_skins[i].drop_rate # 0
              /\ lootbox_skins[j].drop_rate = 0

\* the lifecycle state of the name in the given records
Phase(refs, edges, name) ==
    LET ids == { r.lootbox_id : r \in { q \in refs : q.name = name } }
    IN  IF ids = {} THEN "Nonexistent"
        ELSE IF \A i \in 1..Len(edges) : edges[i].lootbox_id \notin ids
        THEN "Empty"
        ELSE "Populated"

\* the step is a transition of the lifecycle of the name from p to q
Lifecycle(name, p, q) ==
    \/ p = q
    \/ /\ p = "Nonexistent" /\ q = "Empty"
       /\ Ran("create") /\ lastOp'.name = name /\ lastOp'.err = "none"
    \/ /\ p = "Empty" /\ q = "Populated"
       /\ Ran("add_skins") /\ lastOp'.name = name /\ lastOp'.inserts = 1
    \/ /\ q = "Nonexistent"
       /\ Ran("remove") /\ lastOp'.name = name /\ lastOp'.err = "none"

\* C24, as stated: every step leaves the lifecycle state of every name as
\* it is or takes it from Nonexistent to Empty (create), from Empty to
\* Populated (add_skins inserting an edge) or to Nonexistent (remove); no
\* step takes a name from Populated to Empty.
C24_LifecycleExact ==
    [][ \A name \in TargetNames :
          Lifecycle(name,
                    Phase(lootbox_reference, lootbox_skins, name),
                    Phase(lootbox_reference', lootbox_skins', name)) ]_vars

\* C24, amended: the same transitions, and in addition from Populated to
\* Empty by a remove that fails at the delete of the record after its edge
\* delete took effect.
C24_LifecycleWithFailedRemove ==
    [][ \A name \in TargetNames :
          LET p == Phase(lootbox_reference, lootbox_skins, name)
              q == Phase(lootbox_reference', lootbox_skins', name)
          IN  \/ Lifecycle(name, p, q)
              \/ /\ p = "Populated" /\ q = "Empty"
                 /\ Ran("remove") /\ lastOp'.name = name
                 /\ lastOp'.err # "none"
                 /\ lastOp'.fault.site = "lootbox_delete"
                 /\ lastOp'.deletes = 2 ]_vars

\* a remove failed and left its lootbox, which had members and a price,
\* without any edge
C24_Witness ==
    /\ lastOp.op = "remove"
    /\ lastOp.err # "none"
    /\ lastOp.fault.site = "lootbox_delete"
    /\ pricing[lastOp.name] = "torn"
    /\ Phase(lootbox_reference, lootbox_skins, lastOp.name) = "Empty"

\* C25: set_probabilities on a name that has no lootbox or whose lootbox
\* has no edge fails, for every mapping, and issues no store write.
C25_OnlyPopulatedAccepted ==
    ( /\ lastOp.op = "set_probabilities"
      /\ Phase(lootbox_reference, lootbox_skins, lastOp.name)
           # "Populated" )
    => ( lastOp.err # "none" /\ lastOp.updates = 0 )

\* set_probabilities with the empty mapping was refused on a lootbox
\* without edges, while another lootbox has members
C25_Witness ==
    /\ lastOp.op = "set_probabilities"
    /\ lastOp.err = "is_empty"
    /\ lastOp.probabilities = NoMapping
    /\ lootbox_skins # <<>>

\* C26: remove(N) on an existing lootbox that has no edge succeeds when the
\* store answers, issues both deletes and leaves no record named N.
C26_RemoveEmptyLootbox ==
    [][ ( /\ Ran("remove")
          /\ Phase(lootbox_reference, lootbox_skins, lastOp'.name) = "Empty"
          /\ lastOp'.fault = NoFault )
        => ( /\ lastOp'.err = "none"
             /\ lastOp'.deletes = 2
             /\ lootbox_skins' = lootbox_skins
             /\ ~ \E r \in lootbox_reference' : r.name = lastOp'.name ) ]_vars

\* the two operations run so far are the create of the first lootbox of
\* the catalog and its remove, which succeeded
C26_Witness ==
    /\ lastOp.op = "remove"
    /\ lastOp.err = "none"
    /\ lastOp.deletes = 2
    /\ nops = 2
    /\ next_id = 2
    /\ lootbox_reference = {}

\* C27: a remove whose edge delete was issued and returned the failure
\* signal fails with the store-failure error, has issued no delete of the
\* record, and the record is still there.
C27_EdgeDeleteFailureStopsRemove ==
    ( /\ lastOp.op = "remove"
      /\ lastOp.fault.site = "edges_delete"
      /\ lastOp.fault.kind = "nodata"
      /\ lastOp.deletes >= 1 )
    => ( /\ lastOp.err = "failed_delete_skins"
         /\ lastOp.deletes = 1
         /\ \E r \in lootbox_reference : r.name = lastOp.name )

\* a remove failed at its edge delete and the edges of the lootbox are
\* still there
C27_Witness ==
    /\ lastOp.op = "remove"
    /\ lastOp.err = "failed_delete_skins"
    /\ Phase(lootbox_reference, lootbox_skins, lastOp.name) = "Populated"

\* the positions of a list of names whose name resolves to a skin that is
\* not a member of the lootbox
StagedPositions(name, skin_names) ==
    { i \in 1..Len(skin_names) :
        \E s \in skins_reference :
            s.name = skin_names[i] /\ s \notin MemberSkins(name) }

\* C29: add_skins issues at most one insert; when it succeeds it has issued
\* one insert exactly if a name was staged, and the edges are the old ones
\* followed by one edge for every staged name; and when nothing is staged
\* it issues no insert, leaves the edges as they are and, when the store
\* answers and the lootbox exists, succeeds.
C29_OneBatchedInsert ==
    [][ Ran("add_skins")
        => LET staged == StagedPositions(lastOp'.name, lastOp'.skin_names)
               ids == BoxIds(lastOp'.name)
           IN  /\ lastOp'.inserts <= 1
               /\ lastOp'.err = "none"
                    => ( /\ lastOp'.inserts = IF staged = {} THEN 0 ELSE 1
                         /\ Len(lootbox_skins')
                              = Len(lootbox_skins) + Cardinality(staged)
                         /\ SubSeq(lootbox_skins', 1, Len(lootbox_skins))
                              = lootbox_skins
                         /\ \A s \in skins_reference :
                              Cardinality({ i \in staged :
                                  lastOp'.skin_names[i] = s.name })
                              = Cardinality(
                                  { j \in (Len(lootbox_skins) + 1)
                                           ..Len(lootbox_skins') :
                                      /\ lootbox_skins'[j].skin_id = s.id
                                      /\ lootbox_skins'[j].lootbox_id
                                           \in ids }) )
               /\ staged = {}
                    => ( /\ lastOp'.inserts = 0
                         /\ lootbox_skins' = lootbox_skins
                         /\ ( lastOp'.fault = NoFault /\ ids # {} )
                              => lastOp'.err = "none" ) ]_vars

\* add_skins succeeded with one insert for a list of two names, both
\* staged
C29_Witness ==
    /\ lastOp.op = "add_skins"
    /\ lastOp.err = "none"
    /\ lastOp.inserts = 1
    /\ Len(lastOp.skin_names) = 2
    /\ lastOp.skin_names[1] # lastOp.skin_names[2]
    /\ lastOp.duplicates = <<>>
    /\ lastOp.not_found = <<>>

\* C30: an add_skins whose insert was issued and returned no rows fails
\* with the store-failure error, leaves the store unchanged and has issued
\* that one write only.
C30_InsertFailure ==
    [][ ( /\ Ran("add_skins")
          /\ lastOp'.fault.site = "edges_insert"
          /\ lastOp'.fault.kind = "nodata"
          /\ lastOp'.inserts >= 1 )
        => ( /\ lastOp'.err = "failed_to_add"
             /\ lastOp'.inserts = 1
             /\ lastOp'.ret = <<>>
             /\ StagedPositions(lastOp'.name, lastOp'.skin_names) # {}
             /\ StoreUnchanged ) ]_vars

\* an add_skins with two staged names failed at its insert
C30_Witness ==
    /\ lastOp.op = "add_skins"
    /\ lastOp.err = "failed_to_add"
    /\ Len(lastOp.skin_names) = 2
    /\ lastOp.skin_names[1] # lastOp.skin_names[2]
    /\ MemberSkins(lastOp.name) = {}
    /\ \A i \in 1..2 :
         \E s \in skins_reference : s.name = lastOp.skin_names[i]

\* the skins of the edges of the lootbox that resolve, in edge order
ResolvedInEdgeOrder(name) ==
    LET Resolves(e) ==
            /\ e.lootbox_id \in BoxIds(name)
            /\ \E s \in skins_reference : s.id = e.skin_id
        mine == SelectSeq(lootbox_skins, Resolves)
    IN  [ i \in 1..Len(mine) |->
            CHOOSE s \in skins_reference : s.id = mine[i].skin_id ]

\* C28: get_contents on an existing lootbox succeeds when the store
\* answers, whether or not its edges resolve, and a successful get_contents
\* returns the Skin record of every edge that resolves, in edge order, and
\* nothing for an edge that does not.
C28_TolerantJoin ==
    ( /\ lastOp.op = "get_contents"
      /\ \E r \in lootbox_reference : r.name = lastOp.name )
    => ( /\ lastOp.fault = NoFault => lastOp.err = "none"
         /\ lastOp.err = "none"
              => lastOp.ret = ResolvedInEdgeOrder(lastOp.name) )

\* get_contents returned two skins, the one with the higher id first, for
\* a lootbox with an edge that resolves to no skin
C28_Witness ==
    /\ lastOp.op = "get_contents"
    /\ lastOp.err = "none"
    /\ Len(lastOp.ret) = 2
    /\ lastOp.ret[1].id > lastOp.ret[2].id
    /\ \E i \in 1..Len(lootbox_skins) :
         /\ lootbox_skins[i].lootbox_id \in BoxIds(lastOp.name)
         /\ \A s \in skins_reference : s.id # lootbox_skins[i].skin_id

\* C22: once a construction has returned, every construction has returned
\* the same object, and one client has been created.
C22_Singleton ==
    supabase.returned # {}
    => ( Cardinality(supabase.returned) = 1 /\ supabase.clients = 1 )

\* C21: no two lootbox records have the same name, whatever creates ran
\* and however their store calls interleaved.
C21_NamesUniqueUnderConcurrency ==
    \A r1 \in lootbox_reference, r2 \in lootbox_reference :
        r1.name = r2.name => r1 = r2

\* C34: every object a construction has returned has its client; an object
\* left without client by a failed construction is never handed out.
C34_ReturnedInstanceHasClient ==
    \A self \in supabase.returned : supabase.client[self] # NoClient

\* C31: add_skins, whether it succeeds or fails, keeps every edge that was
\* there before with its drop_rate and in its place, gives every edge it
\* adds the drop_rate 0, and leaves the lootbox records (base_price
\* included) and the skin records as they were.
C31_AddSkinsOnlyAddsEdges ==
    [][ Ran("add_skins")
        => LET n == Len(lootbox_skins)
           IN  /\ Len(lootbox_skins') >= n
               /\ SubSeq(lootbox_skins', 1, n) = lootbox_skins
               /\ \A i \in (n + 1)..Len(lootbox_skins') :
                      lootbox_skins'[i].drop_rate = 0
               /\ lootbox_reference' = lootbox_reference
               /\ skins_reference' = skins_reference ]_vars

\* add_skins has added an edge to a lootbox that has a price and a member
\* with a drop_rate other than 0
C31_Witness ==
    /\ lastOp.op = "add_skins"
    /\ lastOp.err = "none"
    /\ lastOp.inserts = 1
    /\ \E r \in lootbox_reference :
         /\ r.name = lastOp.name
         /\ r.base_price # NoPrice
         /\ \E i, j \in 1..Len(lootbox_skins) :
              /\ lootbox_skins[i].lootbox_id = r.lootbox_id
              /\ lootbox_skins[i].drop_rate # 0
              /\ lootbox_skins[j].lootbox_id = r.lootbox_id
              /\ lootbox_skins[j].drop_rate = 0
              /\ i < j

\* C33: every operation returns or fails with ValueError; a store call
\* that raises, at whatever step, leaves the operation as ValueError.
C33_UniformFailureKind ==
    lastOp.raises \in { "none", "ValueError" }

\* an operation in which a store call raised has failed
C33_Witness ==
    /\ lastOp.op \in { "create", "get_contents", "add_skins", "remove",
                       "set_probabilities", "get_all_skins",
                       "get_all_lootbox", "get_filtered_skins" }
    /\ lastOp.fault.kind = "raise"
    /\ lastOp.err = "store_raised"
    /\ lastOp.raises = "ValueError"

\* C32: the insert of an add_skins stores the edges the caller staged
\* against its own earlier read of the edges, whatever has been stored
\* since; nothing makes the insert wait for, or look at, the other caller.
C32_InsertIgnoresLaterEdges ==
    [][ \A c \in Callers :
          ( /\ calls[c].pc = "update_insert"
            /\ calls'[c].pc = "contents_id" )
          => lootbox_skins' = lootbox_skins \o calls[c].skins_to_add ]_vars

\* the two callers have added the same skin to the same lootbox, both with
\* success, and the lootbox has the pair twice
C32_Witness ==
    /\ \A c \in Callers :
         /\ calls[c].op = "add_skins"
         /\ calls[c].pc = "done"
         /\ calls[c].err = "none"
         /\ calls[c].skin_names = <<"B">>
         /\ calls[c].name = <<"x">>
         /\ Len(calls[c].skins_to_add) = 1
    /\ calls[1].skins_to_add = calls[2].skins_to_add
    /\ \E i, j \in 1..Len(lootbox_skins) :
         /\ i < j
         /\ lootbox_skins[i] = calls[1].skins_to_add[1]
         /\ lootbox_skins[j] = calls[1].skins_to_add[1]

\* C35: once no caller is inside an operation, every edge references a
\* lootbox record, however a remove and an add_skins on one lootbox
\* interleaved.
C35_NoEdgeOutlivesLootbox ==
    ( \A c \in Callers : calls[c].pc \in { "idle", "done" } )
    => \A i \in 1..Len(lootbox_skins) :
          \E r \in lootbox_reference :
              r.lootbox_id = lootbox_skins[i].lootbox_id

=============================================================================
